---------------------------- MODULE Spec2Model ----------------------------
(***************************************************************************)
(* A model of the provider data-fetch layer of the DuckDB "sudan"          *)
(* extension: the process-wide ResponseCache (src/sudan/cache.cpp), the    *)
(* table functions' Bind / Init / Execute protocol and the per-provider    *)
(* fetchers (World Bank, WHO, FAO, UNHCR, ILO).                            *)
(*                                                                         *)
(* Conventions.  A std::string is a TLA+ string; its characters are read   *)
(* with SubSeq, so that substr, find, Lower and the std::sto* conversions  *)
(* are computed.  A JSON value is a tagged record [t, v]; an object is the *)
(* sequence of its members in document order; a missing member (a NULL     *)
(* yyjson_val pointer) is the value JAbsent.  A real number is kept in     *)
(* tenths (v = 25 stands for 2.5); a double that is no int number of       *)
(* tenths is the record of its sign, mantissa and binary exponent.  A      *)
(* request URL is the string the code builds.                              *)
(***************************************************************************)
EXTENDS Integers, Sequences, FiniteSets, TLC

VARIABLES
    cache_,     \* ResponseCache::cache_  (url -> CacheEntry), a partial map
    now,        \* std::chrono::steady_clock, in ticks
    last,       \* history: the most recent cache operation and what it returned
    lastPut,    \* history: the Put that immediately precedes the next operation
    evicted,    \* history: keys a Get erased as expired, no Put since
    mutex_,     \* ResponseCache::mutex_ : its holder, or "free"
    th,         \* per thread: the cache operation in progress and its position
    seqCache,   \* history: the map after the operations so far, in lock order
    q,          \* per query execution: bind data, fetch position, State
    calls,      \* history: the requests HttpClient::Get was called with
    puts,       \* history: per key, the latest Put since the last Clear (body, time)
    fn          \* a call of a pure function: its argument and what it returned

queryVars == <<q, calls>>
vars == <<cache_, now, last, lastPut, evicted, mutex_, th, seqCache, q, calls, puts, fn>>

-----------------------------------------------------------------------------
(* Bounds of the model *)

\* steady_clock ticks per second (the clock is finer than one second)
TicksPerSecond == 2
\* how many single ticks the clock takes after each long step
MaxFine == 3
\* how many long steps (of one TTL each) the clock takes
MaxLong == 2

\* rows per output chunk (DuckDB's STANDARD_VECTOR_SIZE, 2048 in the build)
STANDARD_VECTOR_SIZE == 2
\* how many more times Execute is called after it has returned no row
MaxIdleCalls == 2

\* the threads, each running the cache operations or one query execution
Threads == {"e1", "e2"}

\* the records of a response body for which the specifications draw what an
\* uninitialized member holds
MaxRecords == 2

\* the values the specifications draw for an uninitialized int and, in
\* tenths, for an uninitialized double (the member may hold any value, see
\* IsJunk)
Junk == {0, 77}
JunkDouble == {5, 1234}

(* Program constants *)

CACHE_TTL_SECONDS == 300

-----------------------------------------------------------------------------
(* Strings *)

EmptyString == ""

CharAt(s, i) == SubSeq(s, i, i)

Digits == <<"0", "1", "2", "3", "4", "5", "6", "7", "8", "9">>
IsDigit(c) == \E d \in 1..10 : Digits[d] = c
DigitVal(c) == (CHOOSE d \in 1..10 : Digits[d] = c) - 1

\* the form feed 0x0C and the vertical tab 0x0B
FormFeed == "\f"
VerticalTab == ""

\* std::isspace in the "C" locale, which is also the white space strtol,
\* strtoll, strtoul and strtod skip
IsSpace(c) == c \in {" ", "\t", "\n", VerticalTab, FormFeed, "\r"}

Min(S) == CHOOSE x \in S : \A y \in S : x <= y

INT32_MAX == 2147483647
INT32_MIN == (0 - INT32_MAX) - 1

RECURSIVE SkipSpaces(_, _)
SkipSpaces(s, i) ==
    IF i <= Len(s) /\ IsSpace(CharAt(s, i)) THEN SkipSpaces(s, i + 1) ELSE i

\* A 64-bit magnitude is four 16-bit limbs, the least significant first.
Limb == 256 * 256
HalfLimb == 128 * 256
ZeroLimbs == <<0, 0, 0, 0>>

\* the magnitude of the run of digits of s from position i on, as strtol,
\* strtoll and strtoul accumulate it; over when it passes 2^64 - 1
RECURSIVE WideRun(_, _, _)
WideRun(s, i, acc) ==
    IF i <= Len(s) /\ IsDigit(CharAt(s, i))
    THEN LET t1 == acc.limbs[1] * 10 + DigitVal(CharAt(s, i))
             t2 == acc.limbs[2] * 10 + (t1 \div Limb)
             t3 == acc.limbs[3] * 10 + (t2 \div Limb)
             t4 == acc.limbs[4] * 10 + (t3 \div Limb)
         IN  WideRun(s, i + 1,
                     [limbs |-> <<t1 % Limb, t2 % Limb, t3 % Limb, t4 % Limb>>,
                      over |-> acc.over \/ t4 >= Limb])
    ELSE acc

\* the int32_t with the bit pattern of two limbs
Signed32(high, low) ==
    IF high >= HalfLimb THEN (high - Limb) * Limb + low ELSE high * Limb + low

\* the two's complement of a magnitude
NegateLimbs(limbs) ==
    LET t1 == (Limb - 1 - limbs[1]) + 1
        t2 == (Limb - 1 - limbs[2]) + (t1 \div Limb)
        t3 == (Limb - 1 - limbs[3]) + (t2 \div Limb)
        t4 == (Limb - 1 - limbs[4]) + (t3 \div Limb)
    IN  <<t1 % Limb, t2 % Limb, t3 % Limb, t4 % Limb>>

\* An int64_t is the record of its two halves: hi the upper 32 bits, low the
\* lower 32 bits, each read as an int32_t.
Int64(hi, low) == [hi |-> hi, low |-> low]
\* the int64_t of an int
Widen(n) == Int64(IF n < 0 THEN 0 - 1 ELSE 0, n)
Int64OfLimbs(limbs) == Int64(Signed32(limbs[4], limbs[3]), Signed32(limbs[2], limbs[1]))

\* strtol / strtoll / strtoul, base 10: leading white space, an optional
\* sign, then the longest run of digits; ok is FALSE when there is no digit
\* to convert; neg for a minus sign; limbs is the magnitude of the digits
StrToInteger(s) ==
    LET i == SkipSpaces(s, 1)
        signed == i <= Len(s) /\ CharAt(s, i) \in {"-", "+"}
        j == IF signed THEN i + 1 ELSE i
        ok == j <= Len(s) /\ IsDigit(CharAt(s, j))
        run == IF ok THEN WideRun(s, j, [limbs |-> ZeroLimbs, over |-> FALSE])
                     ELSE [limbs |-> ZeroLimbs, over |-> FALSE]
    IN  [ok |-> ok, over |-> run.over, limbs |-> run.limbs,
         neg |-> signed /\ CharAt(s, i) = "-"]

\* the magnitude is at most 2^(16 * n - 1) - 1, or 2^(16 * n - 1) when neg:
\* the number is in the range of a signed integer of n limbs
InSignedRange(r, n) ==
    /\ ~r.over
    /\ \A k \in (n + 1)..4 : r.limbs[k] = 0
    /\ \/ r.limbs[n] < HalfLimb
       \/ /\ r.neg /\ r.limbs[n] = HalfLimb
          /\ \A k \in 1..(n - 1) : r.limbs[k] = 0

\* std::stoi: throws (ok = FALSE) on no conversion and on a value out of int
StoI(s) ==
    LET r == StrToInteger(s)
    IN  IF r.ok /\ InSignedRange(r, 2)
        THEN [ok |-> TRUE,
              val |-> IF r.neg THEN Signed32(NegateLimbs(r.limbs)[2],
                                             NegateLimbs(r.limbs)[1])
                               ELSE Signed32(r.limbs[2], r.limbs[1])]
        ELSE [ok |-> FALSE, val |-> 0]

\* std::stoll: throws (ok = FALSE) on no conversion and on a value out of
\* long long
StoLL(s) ==
    LET r == StrToInteger(s)
    IN  IF r.ok /\ InSignedRange(r, 4)
        THEN [ok |-> TRUE,
              val |-> Int64OfLimbs(IF r.neg THEN NegateLimbs(r.limbs) ELSE r.limbs)]
        ELSE [ok |-> FALSE, val |-> Widen(0)]

RECURSIVE NatToString(_)
NatToString(n) ==
    IF n < 10 THEN Digits[n + 1] ELSE NatToString(n \div 10) \o Digits[(n % 10) + 1]

\* std::to_string(int), operator<<(int); the magnitude of INT32_MIN is
\* INT32_MAX + 1
IntToString(n) ==
    IF n >= 0 THEN NatToString(n)
    ELSE IF n > INT32_MIN THEN "-" \o NatToString(0 - n)
    ELSE "-" \o NatToString(INT32_MAX \div 10) \o Digits[(INT32_MAX % 10) + 2]

Upper == <<"A", "B", "C", "D", "E", "F", "G", "H", "I", "J", "K", "L", "M",
           "N", "O", "P", "Q", "R", "S", "T", "U", "V", "W", "X", "Y", "Z">>
Lowers == <<"a", "b", "c", "d", "e", "f", "g", "h", "i", "j", "k", "l", "m",
            "n", "o", "p", "q", "r", "s", "t", "u", "v", "w", "x", "y", "z">>
LowerChar(c) ==
    IF \E i \in 1..26 : Upper[i] = c
    THEN Lowers[CHOOSE i \in 1..26 : Upper[i] = c] ELSE c

\* StringUtil::Lower
RECURSIVE Lower(_)
Lower(s) == IF s = "" THEN "" ELSE LowerChar(CharAt(s, 1)) \o Lower(SubSeq(s, 2, Len(s)))

-----------------------------------------------------------------------------
(* JSON values, as yyjson presents them *)

JAbsent == [t |-> "absent", v |-> 0]
JNull == [t |-> "null", v |-> 0]
\* the 64-bit integer hi * 2^32 + low, low a signed 32-bit number
JInt64(hi, low) == [t |-> "int", v |-> low, hi |-> hi]
JInt(n) == JInt64(0, n)
JReal(tenths) == [t |-> "real", v |-> tenths]
JStr(s) == [t |-> "str", v |-> s]
JArr(elems) == [t |-> "arr", v |-> elems]
JObj(members) == [t |-> "obj", v |-> members]
\* one member of an object
M(key, val) == [k |-> key, val |-> val]

IsObj(val) == val.t = "obj"
IsArr(val) == val.t = "arr"
IsStr(val) == val.t = "str"
IsReal(val) == val.t = "real"
\* yyjson_is_int: a signed or an unsigned integer
IsInt(val) == val.t = "int"

\* yyjson_obj_get: the first member of that name; NULL when there is none or
\* when obj is no object
ObjGet(obj, key) ==
    IF ~IsObj(obj) THEN JAbsent
    ELSE LET hits == {i \in 1..Len(obj.v) : obj.v[i].k = key}
         IN  IF hits = {} THEN JAbsent ELSE obj.v[Min(hits)].val

\* yyjson_arr_size, yyjson_arr_get
ArrSize(arr) == IF IsArr(arr) THEN Len(arr.v) ELSE 0
ArrGet(arr, i) == IF IsArr(arr) /\ i < Len(arr.v) THEN arr.v[i + 1] ELSE JAbsent

\* yyjson_get_int returns int: the 64-bit content cast to int, its low 32 bits
GetInt(val) == IF IsInt(val) THEN val.v ELSE 0
\* yyjson_get_real, in tenths
GetReal(val) == IF IsReal(val) THEN val.v ELSE 0
\* yyjson_get_str
GetStr(val) == IF IsStr(val) THEN val.v ELSE ""

\* static_cast<double>(int), in tenths
IntToDouble(n) == n * 10
\* static_cast<int64_t>(double): truncation toward zero
DoubleToInt64(tenths) == IF tenths >= 0 THEN tenths \div 10 ELSE 0 - ((0 - tenths) \div 10)

\* a response body: the empty string, a text that is no JSON document,
\* or the text of the JSON document json
EmptyBody == [text |-> "empty", json |-> JAbsent]
GarbageBody == [text |-> "garbage", json |-> JAbsent]
JsonBody(doc) == [text |-> "json", json |-> doc]

\* std::string::empty() of a body
BodyEmpty(body) == body.text = "empty"

\* yyjson_read + yyjson_doc_get_root: the root value, or NULL when the text is
\* empty or no JSON document
YyjsonRead(body) == IF body.text = "json" THEN body.json ELSE JAbsent

-----------------------------------------------------------------------------
(* Request URLs *)

\* A URL is the string the fetcher concatenates; it is the key of the cache
\* and what HttpClient::Get is called with.

\* who_functions.cpp:111-112
WHOUrl(indicator, country_iso3) ==
    "https://ghoapi.azureedge.net/api/" \o indicator \o
    "?$filter=SpatialDim eq '" \o country_iso3 \o "'"

-----------------------------------------------------------------------------
(* ResponseCache *)

\* the keys and bodies the cache operations are called with
CacheKeys == {WHOUrl("POP", "SDN"), WHOUrl("POP", "EGY")}
CacheBodies == {EmptyBody, GarbageBody, JsonBody(JObj(<<M("value", JArr(<<>>))>>))}

CacheEntry(body, timestamp) == [body |-> body, timestamp |-> timestamp]

\* std::chrono::duration_cast<std::chrono::seconds>(d).count(): truncation
DurationCastSeconds(ticks) == ticks \div TicksPerSecond

\* cache_.erase(it)
MapErase(map, url) == [k \in (DOMAIN map) \ {url} |-> map[k]]

\* cache_[url] = entry
MapAssign(map, url, entry) ==
    [k \in (DOMAIN map) \cup {url} |-> IF k = url THEN entry ELSE map[k]]

\* a comparison that also expires an entry exactly CACHE_TTL_SECONDS old
ExpiredAtTTL(entry, clock) ==
    DurationCastSeconds(clock - entry.timestamp) >= CACHE_TTL_SECONDS

\* the entry is expired: elapsed > CACHE_TTL_SECONDS
Expired(entry, clock) ==
    DurationCastSeconds(clock - entry.timestamp) > CACHE_TTL_SECONDS

\* a Get that reports an expired entry as absent and leaves it in the map
CacheGetNoErase(map, url, clock) ==
    IF url \notin DOMAIN map
    THEN [map |-> map, ret |-> EmptyBody]
    ELSE IF Expired(map[url], clock)
         THEN [map |-> map, ret |-> EmptyBody]
         ELSE [map |-> map, ret |-> map[url].body]

\* ResponseCache::Get, as one step: the map afterwards and the string returned
CacheGet(map, url, clock) ==
    IF url \notin DOMAIN map
    THEN [map |-> map, ret |-> EmptyBody]
    ELSE IF Expired(map[url], clock)
         THEN [map |-> MapErase(map, url), ret |-> EmptyBody]
         ELSE [map |-> map, ret |-> map[url].body]

\* a Put that drops the entries of the other keys
CachePutAlone(map, url, body, clock) ==
    [k \in {url} |-> CacheEntry(body, clock)]

\* ResponseCache::Put
CachePut(map, url, body, clock) == MapAssign(map, url, CacheEntry(body, clock))

\* ResponseCache::Clear
CacheClear(map) == <<>>

EmptyMap == <<>>

-----------------------------------------------------------------------------
(* HttpClient *)

\* what the network does with one request: the httplib call reports an error,
\* something throws, or the server answers with a status and a body (the body
\* as it is after the gzip step)
NetFail == [kind |-> "fail", status |-> 0, body |-> EmptyBody]
NetThrow == [kind |-> "throw", status |-> 0, body |-> EmptyBody]
\* something throws after the status of the answer was taken
NetThrowLate(status) == [kind |-> "throw", status |-> status, body |-> EmptyBody]
NetAnswer(status, body) == [kind |-> "answer", status |-> status, body |-> body]

\* HttpClient::ExecuteHttpRequest: the HttpResponseData returned
ExecuteHttpRequest(net) ==
    CASE net.kind = "throw" ->
           [status_code |-> net.status, error |-> "exception", body |-> EmptyBody]
      [] net.kind = "fail" ->
           [status_code |-> 0, error |-> "HTTP request failed", body |-> EmptyBody]
      [] OTHER ->
           [status_code |-> net.status, error |-> "", body |-> net.body]

\* HttpClient::Get(settings, url)
HttpGet(net) == ExecuteHttpRequest(net)

\* a test that looks at the status alone
ResponseFailedByStatus(response) == response.status_code # 200

\* the test every fetcher but ILO's makes of a response
ResponseFailed(response) == response.status_code # 200 \/ response.error # ""

\* the ambient http_timeout setting: not set, or set to a number of seconds
TimeoutNotSet == [set |-> FALSE, value |-> 0]
TimeoutSet(seconds) == [set |-> TRUE, value |-> seconds]

\* HttpClient::ExtractHttpSettings (the timeout)
ExtractHttpSettings(http_timeout) ==
    [timeout |-> IF http_timeout.set THEN http_timeout.value ELSE 90]

-----------------------------------------------------------------------------
(* Countries and year filters *)

SUPPORTED_COUNTRIES ==
    << [iso3 |-> "SDN", iso2 |-> "SD"], [iso3 |-> "EGY", iso2 |-> "EG"],
       [iso3 |-> "ETH", iso2 |-> "ET"], [iso3 |-> "TCD", iso2 |-> "TD"],
       [iso3 |-> "SSD", iso2 |-> "SS"], [iso3 |-> "ERI", iso2 |-> "ER"],
       [iso3 |-> "LBY", iso2 |-> "LY"], [iso3 |-> "CAF", iso2 |-> "CF"] >>

\* a lookup that matches the three-letter codes only
NormalizeIso3Only(code) ==
    LET hits == {i \in 1..Len(SUPPORTED_COUNTRIES) : SUPPORTED_COUNTRIES[i].iso3 = code}
    IN  IF hits = {} THEN code ELSE SUPPORTED_COUNTRIES[Min(hits)].iso3

NormalizeCountryCode(code) ==
    LET hits == {i \in 1..Len(SUPPORTED_COUNTRIES) :
                    \/ SUPPORTED_COUNTRIES[i].iso3 = code
                    \/ SUPPORTED_COUNTRIES[i].iso2 = code}
    IN  IF hits = {} THEN code ELSE SUPPORTED_COUNTRIES[Min(hits)].iso3

\* struct FilterResult, with its default member values
FilterResult == [has_year_filter |-> FALSE, year_start |-> -1, year_end |-> -1]

\* an encoder that leaves an open side of the range empty
EncodeWorldBankOpenRange(filter) ==
    IF ~filter.has_year_filter THEN ""
    ELSE "date=" \o (IF filter.year_start > 0 THEN IntToString(filter.year_start) ELSE "")
                 \o ":" \o (IF filter.year_end > 0 THEN IntToString(filter.year_end) ELSE "")

\* an encoder without the range for an end bound alone
EncodeWorldBankNeedsStart(filter) ==
    IF ~filter.has_year_filter THEN ""
    ELSE "date=" \o
         (IF filter.year_start > 0 /\ filter.year_end > 0
          THEN IntToString(filter.year_start) \o ":" \o IntToString(filter.year_end)
          ELSE IF filter.year_start > 0
          THEN IntToString(filter.year_start) \o ":2100"
          ELSE "")

EncodeWorldBankYearFilter(filter) ==
    IF ~filter.has_year_filter THEN ""
    ELSE "date=" \o
         (IF filter.year_start > 0 /\ filter.year_end > 0
          THEN IntToString(filter.year_start) \o ":" \o IntToString(filter.year_end)
          ELSE IF filter.year_start > 0
          THEN IntToString(filter.year_start) \o ":2100"
          ELSE IF filter.year_end > 0
          THEN "1900:" \o IntToString(filter.year_end)
          ELSE "")

\* an encoder that writes the joiner before every end term
EncodeWHOAlwaysAnd(filter) ==
    IF ~filter.has_year_filter THEN ""
    ELSE "$filter="
         \o (IF filter.year_start > 0
             THEN "TimeDim ge " \o IntToString(filter.year_start) ELSE "")
         \o (IF filter.year_end > 0
             THEN " and " \o "TimeDim le " \o IntToString(filter.year_end) ELSE "")

EncodeWHOYearFilter(filter) ==
    LET need_and == filter.year_start > 0
    IN  IF ~filter.has_year_filter THEN ""
        ELSE "$filter="
             \o (IF filter.year_start > 0
                 THEN "TimeDim ge " \o IntToString(filter.year_start) ELSE "")
             \o (IF filter.year_end > 0
                 THEN (IF need_and THEN " and " ELSE "")
                      \o "TimeDim le " \o IntToString(filter.year_end)
                 ELSE "")

EncodeFAOYearFilter(filter) ==
    LET need_amp == filter.year_start > 0
    IN  IF ~filter.has_year_filter THEN ""
        ELSE (IF filter.year_start > 0
                 THEN "year_start=" \o IntToString(filter.year_start) ELSE "")
             \o (IF filter.year_end > 0
                 THEN (IF need_amp THEN "&" ELSE "")
                      \o "year_end=" \o IntToString(filter.year_end)
                 ELSE "")

EncodeUNHCRYearFilter(filter) ==
    LET need_amp == filter.year_start > 0
    IN  IF ~filter.has_year_filter THEN ""
        ELSE (IF filter.year_start > 0
                 THEN "yearFrom=" \o IntToString(filter.year_start) ELSE "")
             \o (IF filter.year_end > 0
                 THEN (IF need_amp THEN "&" ELSE "")
                      \o "yearTo=" \o IntToString(filter.year_end)
                 ELSE "")

EncodeILOYearFilter(filter) ==
    LET need_amp == filter.year_start > 0
    IN  IF ~filter.has_year_filter THEN ""
        ELSE (IF filter.year_start > 0
                 THEN "startPeriod=" \o IntToString(filter.year_start) ELSE "")
             \o (IF filter.year_end > 0
                 THEN (IF need_amp THEN "&" ELSE "")
                      \o "endPeriod=" \o IntToString(filter.year_end)
                 ELSE "")

-----------------------------------------------------------------------------
(* Request URLs of the other providers *)

\* wb_functions.cpp:114-126
WorldBankUrl(indicator, country_iso3, page, year_filter) ==
    LET year_param == EncodeWorldBankYearFilter(year_filter)
        base_url == "https://api.worldbank.org/v2/country/" \o country_iso3 \o
                    "/indicator/" \o indicator
    IN  base_url \o "?format=json&per_page=1000&page=" \o IntToString(page) \o
        (IF year_param # "" THEN "&" \o year_param ELSE "")

\* unhcr_functions.cpp:237-238; the population type is no part of the URL
UNHCRUrl(param_name, country_iso3) ==
    "https://api.unhcr.org/population/v1/population/" \o
    "?limit=10000&cf_type=iso&" \o param_name \o "=" \o country_iso3

GetFAOAreaCode(iso3) ==
    CASE iso3 = "SDN" -> "276" [] iso3 = "EGY" -> "59" [] iso3 = "ETH" -> "238"
      [] iso3 = "TCD" -> "39" [] iso3 = "SSD" -> "277" [] iso3 = "ERI" -> "178"
      [] iso3 = "LBY" -> "124" [] iso3 = "CAF" -> "37" [] OTHER -> iso3

\* fao_functions.cpp:124-128; the element is no part of the URL
FAOUrl(dataset, country_iso3) ==
    "https://fenixservices.fao.org/faostat/api/v1/en/data/" \o dataset \o
    "?area=" \o GetFAOAreaCode(country_iso3) \o "&output_type=objects"

\* s.substr(0, n)
Prefix(s, n) == IF Len(s) <= n THEN s ELSE SubSeq(s, 1, n)

\* ilo_functions.cpp:109-112
ILODataflow(indicator) ==
    IF Prefix(indicator, 3) # "DF_" THEN "DF_" \o indicator ELSE indicator

key_suffixes == <<".", "..", "...", "....", ".....">>

\* ilo_functions.cpp:116-118, 127
ILOUrl(indicator, country_iso3, ks) ==
    LET base == "https://sdmx.ilo.org/rest/data/ILO," \o ILODataflow(indicator) \o
                "/" \o country_iso3 \o ".A"
        suffix == "?format=jsondata&detail=dataonly&lastNObservations=20"
    IN  base \o ks \o suffix

\* wb_indicators.cpp:93-94
WBIndicatorsUrl(page) ==
    "https://api.worldbank.org/v2/indicator?format=json&per_page=1000&page=" \o
    IntToString(page)

\* who_functions.cpp:340, info_functions.cpp:250
WHOIndicatorsUrl == "https://ghoapi.azureedge.net/api/Indicator"

\* info_functions.cpp:195
SearchWorldBankUrl ==
    "https://api.worldbank.org/v2/indicator?format=json&per_page=1000&source=2"

\* the URLs SudanSearch::Init requests, in order
SearchUrls == <<SearchWorldBankUrl, WHOIndicatorsUrl>>

-----------------------------------------------------------------------------
(* A query execution: Bind, Init (the fetches), Execute *)

\* the 'countries' named parameter: not given, NULL, or a list of strings
ParamAbsent == [given |-> FALSE, null |-> FALSE, items |-> <<>>]
ParamNull == [given |-> TRUE, null |-> TRUE, items |-> <<>>]
ParamList(items) == [given |-> TRUE, null |-> FALSE, items |-> items]

\* the countries Bind keeps: the normalised items, or SDN when there is none
BindCountries(param) ==
    LET items == IF param.given /\ ~param.null
                 THEN [i \in 1..Len(param.items) |-> NormalizeCountryCode(param.items[i])]
                 ELSE <<>>
    IN  IF items = <<>> THEN <<"SDN">> ELSE items

\* the provider table functions: SUDAN_WorldBank, SUDAN_WHO, SUDAN_FAO,
\* SUDAN_UNHCR, SUDAN_ILO
Providers == {"worldbank", "who", "fao", "unhcr", "ilo"}

\* the other table functions whose Init calls the transport:
\* SUDAN_WB_Indicators, SUDAN_WHO_Indicators, SUDAN_Search
InfoFunctions == {"wb_indicators", "who_indicators", "search"}

\* the number of arguments of each table function: the positional ones of a
\* provider; the 'search' or 'query' named parameter of the others, which is
\* the empty string when it is not given
Arity(provider) == IF provider = "fao" THEN 2 ELSE 1

\* Bind throws InvalidInputException
WorldBankBindThrows(args) == args[1] = ""
WHOBindThrows(args) == args[1] = ""
FAOBindThrows(args) == args[1] = "" \/ args[2] = ""
UNHCRBindThrows(args) == args[1] = ""
ILOBindThrows(args) == args[1] = ""
SearchBindThrows(args) == args[1] = ""

\* a Bind that accepts every argument
BindNeverThrows(provider, args) == FALSE

BindThrows(provider, args) ==
    CASE provider = "worldbank" -> WorldBankBindThrows(args)
      [] provider = "who" -> WHOBindThrows(args)
      [] provider = "fao" -> FAOBindThrows(args)
      [] provider = "unhcr" -> UNHCRBindThrows(args)
      [] provider = "ilo" -> ILOBindThrows(args)
      [] provider = "search" -> SearchBindThrows(args)
      [] OTHER -> FALSE

\* a query not yet bound.  log, emitted, usedCache, idle, before and
\* extracted are history: the fetches made, the rows output so far, whether
\* the cache was called, the Execute calls that returned no row, the cursor
\* before the last Execute call (-1 before the first), the timeout that
\* ExtractHttpSettings returned to Init.
QueryNew ==
    [provider |-> "none", phase |-> "new", args |-> <<>>, countries |-> <<>>,
     timeout |-> 0, extracted |-> 0, ci |-> 0, pc |-> "none", page |-> 0, total_pages |-> 0,
     ks |-> 0, role |-> 0, rows |-> <<>>, current_row |-> 0, out |-> <<>>,
     log |-> <<>>, emitted |-> <<>>, usedCache |-> FALSE, idle |-> 0,
     before |-> -1]

CacheFrame == UNCHANGED <<now, last, lastPut, evicted, mutex_, th, seqCache, puts, fn>>

\* <provider>::Bind.  A function that takes no countries makes one round of
\* fetches: its list of countries is the one empty string.
Bind(e, provider, args, param) ==
    /\ q[e].phase = "new"
    /\ Len(args) = Arity(provider)
    /\ q' = [q EXCEPT ![e] =
                IF BindThrows(provider, args)
                THEN [@ EXCEPT !.provider = provider, !.args = args, !.phase = "error"]
                ELSE [@ EXCEPT !.provider = provider, !.args = args, !.phase = "bound",
                               !.countries = IF provider \in Providers
                                             THEN BindCountries(param)
                                             ELSE <<EmptyString>>]]
    /\ UNCHANGED <<cache_, calls>>
    /\ CacheFrame

\* s begins with prefix
StartsWith(s, prefix) == Len(s) >= Len(prefix) /\ SubSeq(s, 1, Len(prefix)) = prefix

\* s without its last character
ButLast(s) == SubSeq(s, 1, Len(s) - 1)

\* history: u is a URL the fetch of a country may look up or request (for the
\* page loops: the URL of some page)
OfFetch(provider, args, country, u) ==
    CASE provider = "worldbank" ->
           StartsWith(u, ButLast(WorldBankUrl(args[1], country, 1, FilterResult)))
      [] provider = "who" -> u = WHOUrl(args[1], country)
      [] provider = "fao" -> u = FAOUrl(args[1], country)
      [] provider = "unhcr" -> u \in {UNHCRUrl("coo", country), UNHCRUrl("coa", country)}
      [] provider = "ilo" ->
           \E k \in 1..Len(key_suffixes) : u = ILOUrl(args[1], country, key_suffixes[k])
      [] provider = "who_indicators" -> u = WHOIndicatorsUrl
      [] provider = "wb_indicators" -> StartsWith(u, ButLast(WBIndicatorsUrl(1)))
      [] OTHER -> u \in {SearchWorldBankUrl, WHOIndicatorsUrl}

\* history: the fetch of country number i starts; it is cold when the cache
\* holds no entry for any of its URLs
LogStart(qr, i, map) ==
    Append(qr.log,
           [country |-> qr.countries[i],
            cold |-> \A u \in DOMAIN map :
                        ~OfFetch(qr.provider, qr.args, qr.countries[i], u),
            ev |-> <<>>])

\* the functions whose Init passes the settings on as extracted:
\* SudanWHOIndicators::Init calls HttpClient::Get(context, url), which
\* extracts them itself; SudanSearch::Init extracts them and changes nothing
KeepsTimeout(provider) == provider \in {"who_indicators", "search"}

\* <provider>::Init up to the first fetch: the settings are extracted, the
\* timeout is set to 90 (but see KeepsTimeout), the loop over the countries
\* starts.  The search has no cache lookup: it starts at its first request.
InitStart(e, http_timeout) ==
    /\ q[e].phase = "bound"
    /\ q' = [q EXCEPT ![e] =
                [@ EXCEPT !.phase = "fetch",
                          !.pc = IF q[e].provider = "search" THEN "http" ELSE "get",
                          !.ci = 1,
                          !.timeout = IF KeepsTimeout(q[e].provider)
                                      THEN ExtractHttpSettings(http_timeout).timeout
                                      ELSE [ExtractHttpSettings(http_timeout)
                                              EXCEPT !.timeout = 90].timeout,
                          !.extracted = ExtractHttpSettings(http_timeout).timeout,
                          !.page = 1, !.total_pages = 1, !.ks = 1, !.role = 1,
                          !.log = LogStart(q[e], 1, cache_)]]
    /\ UNCHANGED <<cache_, calls>>
    /\ CacheFrame

\* Fetch<provider>Data returns: Init's loop takes the next country, or Init
\* returns the state
NextCountry(qr, map) ==
    IF qr.ci < Len(qr.countries)
    THEN [qr EXCEPT !.ci = @ + 1, !.pc = "get", !.page = 1, !.total_pages = 1,
                    !.ks = 1, !.role = 1, !.log = LogStart(qr, qr.ci + 1, map)]
    ELSE [qr EXCEPT !.ci = @ + 1, !.pc = "none", !.phase = "ready"]

\* history: one use of a body, from the cache (hit) or from the transport,
\* and the rows it gave
Event(url, hit, response, new) ==
    [url |-> url, hit |-> hit, response |-> response, rows |-> new]
CachedResponse(body) == [status_code |-> 200, error |-> "", body |-> body]

\* rows.push_back(row) for each row of a decoded body, and its history
AppendRows(qr, url, hit, response, new) ==
    [qr EXCEPT !.rows = @ \o new, !.usedCache = TRUE,
               !.log[qr.ci].ev = Append(@, Event(url, hit, response, new))]
\* history: a call of HttpClient::Get by execution e; timeout: the timeout of
\* the settings passed to it; stored: the cache then holds an entry for the
\* URL that has not expired
Request(e, url) ==
    [e |-> e, url |-> url, timeout |-> q[e].timeout,
     stored |-> url \in DOMAIN cache_ /\ ~Expired(cache_[url], now)]

\* history: the cache had no body for the URL
LogMiss(qr) == [qr EXCEPT !.usedCache = TRUE]

\* a DuckDB Value: NULL, or a string or a number
NullStr == [null |-> TRUE, v |-> ""]
NullNum == [null |-> TRUE, v |-> 0]
Val(x) == [null |-> FALSE, v |-> x]
\* s.empty() ? Value() : Value(s)
StrOrNull(s) == IF s = "" THEN NullStr ELSE Val(s)
\* has_value ? Value::DOUBLE(value) : Value()
NumOrNull(has_value, value) == IF has_value THEN Val(value) ELSE NullNum

\* DataRow row; is declared in the loop over the elements and its int and
\* double members have no initializer: a member the element does not assign
\* holds what the storage of row held before.  That is an input of the
\* fetch, junk: with carry the member still holds what the row built before
\* it in this loop left there (the first value for the first row), without
\* carry it holds the value drawn for the element, from ints for the int
\* year and from doubles for the double value: the two members are two
\* objects, and what one holds says nothing about the other.  Any int and
\* any double may be held.
JunkOf(carry, ints, doubles) == [carry |-> carry, ints |-> ints, doubles |-> doubles]
IsInt32(n) == INT32_MIN <= n /\ n <= INT32_MAX
IsJunk(junk) ==
    /\ junk.carry \in BOOLEAN /\ Len(junk.ints) > 0 /\ Len(junk.doubles) > 0
    /\ \A i \in 1..Len(junk.ints) : IsInt32(junk.ints[i])

\* the value vals has for element number i; vals is read again from its start
\* when the body has more elements
JunkAt(vals, i) == vals[((i - 1) % Len(vals)) + 1]

\* what the member holds as the row of element number i is declared, rows
\* being the rows built before it in the loop
Held(junk, i, rows, member) ==
    IF junk.carry /\ rows # <<>> THEN rows[Len(rows)][member]
    ELSE JunkAt(IF member = "value" THEN junk.doubles ELSE junk.ints, i)

\* what the specifications draw for junk: the members of the row before,
\* or an int for every row and a double
JunkRows ==
    {JunkOf(TRUE, <<n>>, <<x>>) : n \in Junk, x \in JunkDouble}
        \cup {JunkOf(FALSE, ints, <<x>>) : ints \in [1..MaxRecords -> Junk], x \in JunkDouble}

\* the same for the rows that have no double member: the UNHCR DataRow,
\* whose year is the only member read without an initializer
JunkYears ==
    {JunkOf(TRUE, <<n>>, <<0>>) : n \in Junk}
        \cup {JunkOf(FALSE, ints, <<0>>) : ints \in [1..MaxRecords -> Junk]}

\* a fetch step of execution e is enabled
AtStep(e, provider, pc) ==
    q[e].provider = provider /\ q[e].phase = "fetch" /\ q[e].pc = pc

-----------------------------------------------------------------------------
(* WHO *)

\* the DataRow FetchWHOData builds from one element of the value array
WHORow(elem, indicator, country_iso3, junk) ==
    LET code_val == ObjGet(elem, "IndicatorCode")
        time_val == ObjGet(elem, "TimeDim")
        spatial_val == ObjGet(elem, "SpatialDim")
        dim1_val == ObjGet(elem, "Dim1")
        num_val == ObjGet(elem, "NumericValue")
        parent_val == ObjGet(elem, "ParentLocation")
    IN  [indicator_code |-> IF IsStr(code_val) THEN GetStr(code_val) ELSE indicator,
         indicator_name |-> "",
         country |-> IF IsStr(spatial_val) THEN GetStr(spatial_val) ELSE country_iso3,
         year |-> IF IsInt(time_val) THEN GetInt(time_val)
                  ELSE IF IsStr(time_val) THEN StoI(GetStr(time_val)).val
                  ELSE 0,
         sex |-> IF IsStr(dim1_val) THEN GetStr(dim1_val) ELSE "",
         value |-> IF IsReal(num_val) THEN GetReal(num_val)
                   ELSE IF IsInt(num_val) THEN IntToDouble(GetInt(num_val))
                   ELSE junk,
         has_value |-> IsReal(num_val) \/ IsInt(num_val),
         region |-> IF IsStr(parent_val) THEN GetStr(parent_val) ELSE ""]

\* the loop over the elements of value: the rows of the first n elements
RECURSIVE WHORows(_, _, _, _, _)
WHORows(value_arr, n, indicator, country_iso3, junk) ==
    IF n = 0 THEN <<>>
    ELSE LET rows == WHORows(value_arr, n - 1, indicator, country_iso3, junk)
         IN  Append(rows, WHORow(ArrGet(value_arr, n - 1), indicator, country_iso3,
                                 Held(junk, n, rows, "value")))

\* FetchWHOData from the JSON parse on: the rows the body yields
WHOParse(body, indicator, country_iso3, junk) ==
    LET value_arr == ObjGet(YyjsonRead(body), "value")
    IN  IF ~IsArr(value_arr) THEN <<>>
        ELSE WHORows(value_arr, ArrSize(value_arr), indicator, country_iso3, junk)

\* SudanWHO::Execute: the output columns of one row
WHOOut(row) ==
    [indicator_code |-> Val(row.indicator_code),
     indicator_name |-> StrOrNull(row.indicator_name),
     country |-> Val(row.country),
     year |-> Val(row.year),
     sex |-> StrOrNull(row.sex),
     value |-> NumOrNull(row.has_value, row.value),
     region |-> StrOrNull(row.region)]

\* a failure that is raised to the caller
AfterFailureRaise(qr, map) == [qr EXCEPT !.phase = "error", !.pc = "none"]

\* a failed response: FetchWHOData returns, nothing is raised
WHOAfterFailure(qr, map) == NextCountry(qr, map)

\* FetchWHOData up to the cache lookup, and the rest of it on a hit
WHOGet(e, Junks) ==
    /\ AtStep(e, "who", "get")
    /\ LET qr == q[e]
           url == WHOUrl(qr.args[1], qr.countries[qr.ci])
           r == CacheGet(cache_, url, now)
       IN  /\ cache_' = r.map
           /\ IF BodyEmpty(r.ret)
              THEN q' = [q EXCEPT ![e] = [LogMiss(qr) EXCEPT !.pc = "http"]]
              ELSE \E junk \in {j \in Junks : IsJunk(j)} :
                     q' = [q EXCEPT ![e] =
                             NextCountry(
                               AppendRows(qr, url, TRUE, CachedResponse(r.ret),
                                          WHOParse(r.ret, qr.args[1],
                                                   qr.countries[qr.ci], junk)),
                               r.map)]
    /\ UNCHANGED calls
    /\ CacheFrame

\* FetchWHOData from the transport call on
WHOHttp(e, Nets, Junks) ==
    /\ AtStep(e, "who", "wait")
    /\ \E net \in Nets, junk \in {j \in Junks : IsJunk(j)} :
         LET qr == q[e]
             url == WHOUrl(qr.args[1], qr.countries[qr.ci])
             response == HttpGet(net)
             stored == CachePut(cache_, url, response.body, now)
         IN  IF ResponseFailed(response)
             THEN /\ cache_' = cache_
                  /\ q' = [q EXCEPT ![e] =
                             WHOAfterFailure(
                               AppendRows(qr, url, FALSE, response, <<>>), cache_)]
             ELSE /\ cache_' = stored
                  /\ q' = [q EXCEPT ![e] =
                             NextCountry(
                               AppendRows(qr, url, FALSE, response,
                                          WHOParse(response.body, qr.args[1],
                                                   qr.countries[qr.ci], junk)),
                               stored)]
    /\ UNCHANGED calls
    /\ CacheFrame

-----------------------------------------------------------------------------
(* World Bank *)

\* the DataRow FetchWorldBankData builds from one element of the data array
WorldBankRow(elem, junk) ==
    LET ind_obj == ObjGet(elem, "indicator")
        country_obj == ObjGet(elem, "country")
        date_val == ObjGet(elem, "date")
        value_val == ObjGet(elem, "value")
        StrOf(obj, key) == IF IsObj(obj) /\ IsStr(ObjGet(obj, key))
                           THEN GetStr(ObjGet(obj, key)) ELSE ""
    IN  [indicator_id |-> StrOf(ind_obj, "id"),
         indicator_name |-> StrOf(ind_obj, "value"),
         country_id |-> StrOf(country_obj, "id"),
         country_name |-> StrOf(country_obj, "value"),
         year |-> IF IsStr(date_val) THEN StoI(GetStr(date_val)).val ELSE junk,
         value |-> IF IsReal(value_val) THEN GetReal(value_val)
                   ELSE IF IsInt(value_val) THEN IntToDouble(GetInt(value_val))
                   ELSE 0,
         has_value |-> IsReal(value_val) \/ IsInt(value_val)]

\* the loop over the data elements of a page: the rows of the first n elements
RECURSIVE WorldBankRows(_, _, _)
WorldBankRows(data_arr, n, junk) ==
    IF n = 0 THEN <<>>
    ELSE LET rows == WorldBankRows(data_arr, n - 1, junk)
         IN  Append(rows, WorldBankRow(ArrGet(data_arr, n - 1),
                                       Held(junk, n, rows, "year")))

\* one turn of FetchWorldBankData's loop from the JSON parse on: whether the
\* loop is left (break), the page count, the rows of the page
WorldBankPage(body, total_pages, junk) ==
    LET root_val == YyjsonRead(body)
        meta == ArrGet(root_val, 0)
        pages_val == ObjGet(meta, "pages")
        data_arr == ArrGet(root_val, 1)
    IN  IF ~IsArr(root_val) \/ ArrSize(root_val) < 2
        THEN [stop |-> TRUE, total_pages |-> total_pages, rows |-> <<>>]
        ELSE [stop |-> FALSE,
              total_pages |-> IF IsObj(meta) /\ IsInt(pages_val)
                              THEN GetInt(pages_val) ELSE total_pages,
              rows |-> IF IsArr(data_arr)
                       THEN WorldBankRows(data_arr, ArrSize(data_arr), junk) ELSE <<>>]

\* a loop that stops one page early
WBLoopStopsEarly(page, total_pages) == page < total_pages

\* while (page <= total_pages)
WBLoopContinues(page, total_pages) == page <= total_pages

\* page++ of an int that holds INT_MAX overflows, and the behaviour is
\* undefined.  What the builds do: the addition wraps and page holds INT_MIN
\* (g++ -O0, -O2, -O3), or the run is aborted (g++ -ftrapv).
PageOverflows == {"wraps", "traps"}
OverflowsAt(page) == IF page = INT32_MAX THEN PageOverflows ELSE {"none"}

\* after a page: break, or page++ and the loop test; overflow is what
\* page++ does at INT_MAX
WBAfterPage(qr, result, map, overflow) ==
    IF result.stop THEN NextCountry(qr, map)
    ELSE IF qr.page = INT32_MAX
    THEN IF overflow = "wraps"
         THEN IF WBLoopContinues(INT32_MIN, result.total_pages)
              THEN [qr EXCEPT !.page = INT32_MIN, !.total_pages = result.total_pages,
                              !.pc = "get"]
              ELSE NextCountry(qr, map)
         ELSE [qr EXCEPT !.phase = "aborted", !.pc = "none"]
    ELSE IF WBLoopContinues(qr.page + 1, result.total_pages)
    THEN [qr EXCEPT !.page = @ + 1, !.total_pages = result.total_pages, !.pc = "get"]
    ELSE NextCountry(qr, map)

\* SudanWorldBank::Execute: the output columns of one row
WorldBankOut(row) ==
    [indicator_id |-> Val(row.indicator_id),
     indicator_name |-> Val(row.indicator_name),
     country_id |-> Val(row.country_id),
     country_name |-> Val(row.country_name),
     year |-> Val(row.year),
     value |-> NumOrNull(row.has_value, row.value)]

\* one turn of the loop up to the cache lookup, and the rest of it on a hit
WBGet(e, Junks) ==
    /\ AtStep(e, "worldbank", "get")
    /\ LET qr == q[e]
           url == WorldBankUrl(qr.args[1], qr.countries[qr.ci], qr.page, FilterResult)
           r == CacheGet(cache_, url, now)
       IN  /\ cache_' = r.map
           /\ IF BodyEmpty(r.ret)
              THEN q' = [q EXCEPT ![e] = [LogMiss(qr) EXCEPT !.pc = "http"]]
              ELSE \E junk \in {j \in Junks : IsJunk(j)}, overflow \in OverflowsAt(qr.page) :
                     LET result == WorldBankPage(r.ret, qr.total_pages, junk)
                     IN  q' = [q EXCEPT ![e] =
                                 WBAfterPage(
                                   AppendRows(qr, url, TRUE, CachedResponse(r.ret),
                                              result.rows),
                                   result, r.map, overflow)]
    /\ UNCHANGED calls
    /\ CacheFrame

\* one turn of the loop from the transport call on
WBHttp(e, Nets, Junks) ==
    /\ AtStep(e, "worldbank", "wait")
    /\ \E net \in Nets, junk \in {j \in Junks : IsJunk(j)},
          overflow \in OverflowsAt(q[e].page) :
         LET qr == q[e]
             url == WorldBankUrl(qr.args[1], qr.countries[qr.ci], qr.page, FilterResult)
             response == HttpGet(net)
             stored == CachePut(cache_, url, response.body, now)
             result == WorldBankPage(response.body, qr.total_pages, junk)
         IN  IF ResponseFailed(response)
             THEN /\ cache_' = cache_
                  /\ q' = [q EXCEPT ![e] =
                             NextCountry(
                               AppendRows(qr, url, FALSE, response, <<>>), cache_)]
             ELSE /\ cache_' = stored
                  /\ q' = [q EXCEPT ![e] =
                             WBAfterPage(
                               AppendRows(qr, url, FALSE, response, result.rows),
                               result, stored, overflow)]
    /\ UNCHANGED calls
    /\ CacheFrame

-----------------------------------------------------------------------------
(* UNHCR *)

GetUNHCRFieldName(type) ==
    LET type_lower == Lower(type)
    IN  CASE type_lower \in {"refugees", "ref"} -> "refugees"
          [] type_lower \in {"idps", "idp"} -> "idps"
          [] type_lower \in {"asylum_seekers", "asylum"} -> "asylum_seekers"
          [] type_lower \in {"returned_refugees", "returned"} -> "returned_refugees"
          [] type_lower = "stateless" -> "stateless"
          [] OTHER -> type_lower

\* the int64_t ParseUNHCRValue returns.  For an integer it is the int that
\* yyjson_get_int returns, widened.
ParseUNHCRValue(val) ==
    IF IsInt(val) THEN Widen(GetInt(val))
    ELSE IF IsReal(val) THEN Widen(DoubleToInt64(GetReal(val)))
    ELSE IF IsStr(val) /\ StoLL(GetStr(val)).ok THEN StoLL(GetStr(val)).val
    ELSE Widen(0)

\* the DataRow FetchUNHCRPage builds from one element of the items array
UNHCRRow(elem, field_name, junk) ==
    LET year_val == ObjGet(elem, "year")
        StrOf(key) == IF IsStr(ObjGet(elem, key)) THEN GetStr(ObjGet(elem, key)) ELSE ""
    IN  [year |-> IF IsInt(year_val) THEN GetInt(year_val) ELSE junk,
         population_type |-> field_name,
         country_origin |-> IF IsStr(ObjGet(elem, "coo_iso"))
                            THEN StrOf("coo_iso") ELSE StrOf("coo"),
         country_origin_name |-> StrOf("coo_name"),
         country_asylum |-> IF IsStr(ObjGet(elem, "coa_iso"))
                            THEN StrOf("coa_iso") ELSE StrOf("coa"),
         country_asylum_name |-> StrOf("coa_name"),
         value |-> ParseUNHCRValue(ObjGet(elem, field_name)),
         has_value |-> TRUE]

\* the loop over items: the rows of the first n elements; an element whose
\* count is 0 is passed over before its row is declared
RECURSIVE UNHCRRows(_, _, _, _)
UNHCRRows(items_arr, n, field_name, junk) ==
    IF n = 0 THEN <<>>
    ELSE LET rows == UNHCRRows(items_arr, n - 1, field_name, junk)
             elem == ArrGet(items_arr, n - 1)
         IN  IF ParseUNHCRValue(ObjGet(elem, field_name)) = Widen(0) THEN rows
             ELSE Append(rows, UNHCRRow(elem, field_name, Held(junk, n, rows, "year")))

\* FetchUNHCRPage from the JSON parse on: the rows the body yields
UNHCRParse(body, field_name, junk) ==
    LET items_arr == ObjGet(YyjsonRead(body), "items")
    IN  IF ~IsArr(items_arr) THEN <<>>
        ELSE UNHCRRows(items_arr, ArrSize(items_arr), field_name, junk)

\* for (const auto &param_name : {"coo", "coa"})
UNHCRParams == <<"coo", "coa">>

\* a loop that is left when a role gave no row
UNHCRStopsAfterEmptyPage(qr, map) ==
    LET ev == qr.log[qr.ci].ev
    IN  IF qr.role < Len(UNHCRParams) /\ ev[Len(ev)].rows # <<>>
        THEN [qr EXCEPT !.role = @ + 1, !.pc = "get"]
        ELSE NextCountry(qr, map)

\* FetchUNHCRPage returns: FetchUNHCRData takes the next role, or returns
UNHCRAfterPage(qr, map) ==
    IF qr.role < Len(UNHCRParams)
    THEN [qr EXCEPT !.role = @ + 1, !.pc = "get"]
    ELSE NextCountry(qr, map)

\* SudanUNHCR::Execute: the output columns of one row
UNHCROut(row) ==
    [year |-> Val(row.year),
     population_type |-> Val(row.population_type),
     country_origin |-> Val(row.country_origin),
     country_origin_name |-> Val(row.country_origin_name),
     country_asylum |-> Val(row.country_asylum),
     country_asylum_name |-> Val(row.country_asylum_name),
     value |-> NumOrNull(row.has_value, row.value)]

\* FetchUNHCRPage up to the cache lookup, and the rest of it on a hit
UNHCRGet(e, Junks) ==
    /\ AtStep(e, "unhcr", "get")
    /\ LET qr == q[e]
           url == UNHCRUrl(UNHCRParams[qr.role], qr.countries[qr.ci])
           r == CacheGet(cache_, url, now)
       IN  /\ cache_' = r.map
           /\ IF BodyEmpty(r.ret)
              THEN q' = [q EXCEPT ![e] = [LogMiss(qr) EXCEPT !.pc = "http"]]
              ELSE \E junk \in {j \in Junks : IsJunk(j)} :
                     q' = [q EXCEPT ![e] =
                             UNHCRAfterPage(
                               AppendRows(qr, url, TRUE, CachedResponse(r.ret),
                                          UNHCRParse(r.ret, GetUNHCRFieldName(qr.args[1]),
                                                     junk)),
                               r.map)]
    /\ UNCHANGED calls
    /\ CacheFrame

\* FetchUNHCRPage from the transport call on
UNHCRHttp(e, Nets, Junks) ==
    /\ AtStep(e, "unhcr", "wait")
    /\ \E net \in Nets, junk \in {j \in Junks : IsJunk(j)} :
         LET qr == q[e]
             url == UNHCRUrl(UNHCRParams[qr.role], qr.countries[qr.ci])
             response == HttpGet(net)
             stored == CachePut(cache_, url, response.body, now)
         IN  IF ResponseFailed(response)
             THEN /\ cache_' = cache_
                  /\ q' = [q EXCEPT ![e] =
                             UNHCRAfterPage(
                               AppendRows(qr, url, FALSE, response, <<>>), cache_)]
             ELSE /\ cache_' = stored
                  /\ q' = [q EXCEPT ![e] =
                             UNHCRAfterPage(
                               AppendRows(qr, url, FALSE, response,
                                          UNHCRParse(response.body,
                                                     GetUNHCRFieldName(qr.args[1]),
                                                     junk)),
                               stored)]
    /\ UNCHANGED calls
    /\ CacheFrame

-----------------------------------------------------------------------------
(* FAO *)

\* haystack.find(needle) != string::npos
Contains(haystack, needle) ==
    \E i \in 1..(Len(haystack) - Len(needle) + 1) :
        SubSeq(haystack, i, i + Len(needle) - 1) = needle

\* s[i], or "" past the ends of s
CharOr(s, i) == IF 1 <= i /\ i <= Len(s) THEN CharAt(s, i) ELSE ""

HexDigits == <<"0", "1", "2", "3", "4", "5", "6", "7", "8", "9",
               "a", "b", "c", "d", "e", "f">>
IsHexDigit(c) == \E d \in 1..16 : HexDigits[d] = LowerChar(c)
HexVal(c) == (CHOOSE d \in 1..16 : HexDigits[d] = LowerChar(c)) - 1

\* the values of the run of decimal (base = 10) or hexadecimal (base = 16)
\* digits of s from position i on
DigitsFrom(s, i, base) ==
    LET IsDigitIn(c) == IF base = 10 THEN IsDigit(c) ELSE IsHexDigit(c)
        n == Min({k \in 0..(Len(s) - i + 1) : ~IsDigitIn(CharOr(s, i + k))})
    IN  IF i > Len(s) THEN <<>>
        ELSE [k \in 1..n |-> HexVal(CharAt(s, i + k - 1))]

\* the zeros at the start and at the end of a sequence of digits
LeadingZeros(ds) == Min({k \in 0..Len(ds) : k = Len(ds) \/ ds[k + 1] # 0})
TrailingZeros(ds) == Min({k \in 0..Len(ds) : k = Len(ds) \/ ds[Len(ds) - k] # 0})
DropZeros(ds) == SubSeq(ds, LeadingZeros(ds) + 1, Len(ds))

\* 2^n, for n <= 15
Pow2(n) ==
    <<1, 2, 4, 8, 16, 32, 64, 128, 256, 512, 1024, 2048, 4096, 8192, 16384, 32768>>[n + 1]

\* the number of bits of a natural number below 2^15
BitLen(d) == Cardinality({k \in 0..14 : Pow2(k) <= d})

\* strtod computes with numbers of any size.  A natural number is the
\* sequence of its digits in base 2^15, the least significant first, with no
\* zero digit at the end; 0 is the empty sequence.
Radix == HalfLimb
RadixBits == BitLen(Radix - 1)

BigTrim(a) ==
    LET set == {i \in 1..Len(a) : a[i] # 0}
    IN  IF set = {} THEN <<>> ELSE SubSeq(a, 1, CHOOSE i \in set : \A j \in set : j <= i)

\* The carry into digit i of a sum whose digits before the carries are u,
\* each below 2 * Radix - 1, and whose lowest digit takes the carry c: that of
\* the nearest digit below i that does not pass a carry on (a digit of
\* Radix - 1 passes on the carry it takes)
CarryInto(u, i, c) ==
    LET stops == {j \in 1..(i - 1) : u[j] # Radix - 1}
        stop == CHOOSE j \in stops : \A l \in stops : l <= j
    IN  IF i = 1 THEN c
        ELSE IF u[i - 1] # Radix - 1 THEN u[i - 1] \div Radix
        ELSE IF stops = {} THEN c
        ELSE u[stop] \div Radix

\* the n lowest digits of the sum
Carried(u, n, c) == BigTrim([i \in 1..n |-> (u[i] + CarryInto(u, i, c)) % Radix])

\* a * k + c, for k <= Radix and c < Radix
BigMulAdd(a, k, c) ==
    LET u == [i \in 1..(Len(a) + 1) |->
                 (IF i <= Len(a) THEN (a[i] * k) % Radix ELSE 0)
                 + (IF i = 1 THEN c ELSE (a[i - 1] * k) \div Radix)]
    IN  IF a = <<>> THEN BigTrim(<<c>>) ELSE Carried(u, Len(a) + 1, 0)

\* a + b
BigAdd(a, b) ==
    LET n == 1 + (IF Len(a) > Len(b) THEN Len(a) ELSE Len(b))
        u == [i \in 1..n |-> (IF i <= Len(a) THEN a[i] ELSE 0)
                              + (IF i <= Len(b) THEN b[i] ELSE 0)]
    IN  IF a = <<>> THEN b ELSE IF b = <<>> THEN a ELSE Carried(u, n, 0)

\* a - b, for a >= b: the digits of a + (Radix^n - 1 - b) + 1 below Radix^n
BigSub(a, b) ==
    LET u == [i \in 1..Len(a) |->
                 a[i] + (Radix - 1) - (IF i <= Len(b) THEN b[i] ELSE 0)]
    IN  IF b = <<>> THEN a ELSE Carried(u, Len(a), 1)

\* a * 2^n
BigShl(a, n) ==
    IF a = <<>> \/ n <= 0 THEN a
    ELSE [i \in 1..(n \div RadixBits) |-> 0] \o BigMulAdd(a, Pow2(n % RadixBits), 0)

\* a \div 2^n
BigShr(a, n) ==
    LET k == n \div RadixBits
        r == n % RadixBits
    IN  IF a = <<>> \/ n <= 0 THEN a
        ELSE IF k >= Len(a) THEN <<>>
        ELSE BigTrim([i \in 1..(Len(a) - k) |->
                         (a[i + k] \div Pow2(r))
                         + (IF i + k < Len(a)
                            THEN (a[i + k + 1] % Pow2(r)) * Pow2(RadixBits - r)
                            ELSE 0)])

\* a % 2^n
BigLow(a, n) ==
    LET k == n \div RadixBits
        r == n % RadixBits
    IN  IF n <= 0 THEN <<>>
        ELSE IF k >= Len(a) THEN a
        ELSE BigTrim(SubSeq(a, 1, k) \o <<a[k + 1] % Pow2(r)>>)

\* bit number i of a, the lowest being bit 0
BigBit(a, i) ==
    IF i < 0 \/ i \div RadixBits >= Len(a) THEN 0
    ELSE (a[(i \div RadixBits) + 1] \div Pow2(i % RadixBits)) % 2

BigBitLen(a) ==
    IF a = <<>> THEN 0 ELSE RadixBits * (Len(a) - 1) + BitLen(a[Len(a)])

\* a < b
BigLess(a, b) ==
    IF Len(a) # Len(b) THEN Len(a) < Len(b)
    ELSE \E i \in 1..Len(a) :
            a[i] < b[i] /\ \A j \in (i + 1)..Len(a) : a[j] = b[j]

\* What the products a[i] * b[j], for i in lo..hi, bring to digit k of
\* a * b before the carries: the low digit of those with i + j = k + 1 and
\* the high digit of those with i + j = k
RECURSIVE ColumnSum(_, _, _, _, _)
ColumnSum(a, b, k, lo, hi) ==
    IF lo > hi THEN 0
    ELSE IF lo = hi
    THEN (IF k + 1 - lo \in 1..Len(b) THEN (a[lo] * b[k + 1 - lo]) % Radix ELSE 0)
         + (IF k - lo \in 1..Len(b) THEN (a[lo] * b[k - lo]) \div Radix ELSE 0)
    ELSE ColumnSum(a, b, k, lo, (lo + hi) \div 2)
         + ColumnSum(a, b, k, (lo + hi) \div 2 + 1, hi)

\* a * b, for numbers of fewer than 2^13 digits
BigMul(a, b) ==
    LET n == Len(a) + Len(b)
        v == [k \in 1..n |-> ColumnSum(a, b, k, 1, Len(a))]
        u == [k \in 1..n |-> (v[k] % Radix) + (IF k = 1 THEN 0 ELSE v[k - 1] \div Radix)]
    IN  IF a = <<>> \/ b = <<>> THEN <<>> ELSE Carried(u, n, 0)

\* half * half, times 10 when odd
Squared(half, odd) ==
    IF half = <<>> THEN <<>>
    ELSE IF odd THEN BigMulAdd(BigMul(half, half), 10, 0)
    ELSE BigMul(half, half)

\* 10^n
RECURSIVE BigPow10(_)
BigPow10(n) == IF n <= 0 THEN <<1>> ELSE Squared(BigPow10(n \div 2), n % 2 = 1)

\* upper * base^n + lower, for the base 10, 16 or 2
Joined(upper, lower, n, base) ==
    IF upper = <<>> THEN lower
    ELSE IF base = 10 THEN BigAdd(BigMul(upper, BigPow10(n)), lower)
    ELSE BigAdd(BigShl(upper, BitLen(base - 1) * n), lower)

\* the number the digits lo..hi of ds form in the base, the most significant
\* first: the number of the upper half, moved up, and the number of the
\* lower half
RECURSIVE BigOfDigits(_, _, _, _)
BigOfDigits(ds, lo, hi, base) ==
    IF lo >= hi THEN (IF lo > hi THEN <<>> ELSE BigTrim(<<ds[lo]>>))
    ELSE Joined(BigOfDigits(ds, lo, (lo + hi) \div 2, base),
                BigOfDigits(ds, (lo + hi) \div 2 + 1, hi, base),
                hi - (lo + hi) \div 2, base)

\* the quotient and the rest of a by k, for 0 < k <= 10000
RECURSIVE BigDivSmall(_, _)
BigDivSmall(a, k) ==
    IF a = <<>> THEN [quot |-> <<>>, rest |-> 0]
    ELSE LET high == BigDivSmall(Tail(a), k)
             t == a[1] + Radix * high.rest
         IN  [quot |-> <<t \div k>> \o high.quot, rest |-> t % k]

\* the decimal numeral of a, four digits at a time: d is a divided by 10000
RECURSIVE BigDigits(_)
BigDigitsOf(d) ==
    IF BigTrim(d.quot) = <<>> THEN IntToString(d.rest)
    ELSE BigDigits(BigTrim(d.quot))
         \o Digits[(d.rest \div 1000) + 1] \o Digits[((d.rest \div 100) % 10) + 1]
         \o Digits[((d.rest \div 10) % 10) + 1] \o Digits[(d.rest % 10) + 1]
BigDigits(a) == BigDigitsOf(BigDivSmall(a, 10000))
BigToString(a) == BigDigits(a)

\* the int of a number below 2^31
BigToInt(a) ==
    (IF Len(a) > 0 THEN a[1] ELSE 0)
    + (IF Len(a) > 1 THEN a[2] * Radix ELSE 0)
    + (IF Len(a) > 2 THEN a[3] * Radix * Radix ELSE 0)

\* the n bits, the most significant first, of the quotient of r * 2^(n - 1)
\* by d, for r < 2 * d, and what is left, times 2^n: the upper half of the
\* bits, then the lower half from what the upper half leaves
RECURSIVE BigDivBits(_, _, _)
BigDivBits(r, d, n) ==
    IF r = <<>> THEN [bits |-> [i \in 1..n |-> 0], rest |-> <<>>]
    ELSE IF n = 1
    THEN IF BigLess(r, d) THEN [bits |-> <<0>>, rest |-> BigMulAdd(r, 2, 0)]
         ELSE [bits |-> <<1>>, rest |-> BigMulAdd(BigSub(r, d), 2, 0)]
    ELSE LET upper == BigDivBits(r, d, n - (n \div 2))
             lower == BigDivBits(upper.rest, d, n \div 2)
         IN  [bits |-> upper.bits \o lower.bits, rest |-> lower.rest]

\* The parameters of double (float.h)
DBL_MAX_10_EXP == 308
DBL_MAX_EXP == 1024
DBL_MIN_EXP == 0 - 1021
DBL_MANT_DIG == 53
\* the exponent of the lowest bit of a denormal double, and the number of
\* bits of the quotients below
DenormUnit == DBL_MIN_EXP - DBL_MANT_DIG
QuotientBits == DBL_MANT_DIG + 3

\* A double is its value in tenths where it is the double nearest to a
\* number of tenths that is an int (15 is 1.5, the double nearest to 15/10);
\* every other double is a record: the two infinities, the NaN, the zero
\* with the sign bit, and the finite double mant * 2^exp, with mant an odd
\* number written as a decimal numeral.
Infinity(neg) == [double |-> "inf", neg |-> neg, mant |-> "", exp |-> 0]
NaN == [double |-> "nan", neg |-> FALSE, mant |-> "", exp |-> 0]
Finite(neg, mant, exp) == [double |-> "finite", neg |-> neg, mant |-> mant, exp |-> exp]
NegativeZero == Finite(TRUE, "0", 0)

\* strtod reports ERANGE, or converts nothing
NoDouble == [ok |-> FALSE, val |-> 0]
NotNear == [ok |-> FALSE, mant |-> <<>>, exp |-> 0]

\* kept is bits without its lowest d bits; the same rounded to the nearest
\* and to even on a tie; sticky says that there is a fraction below the
\* lowest bit of bits
RoundKept(bits, d, sticky, kept) ==
    IF /\ BigBit(bits, d - 1) = 1
       /\ \/ sticky
          \/ BigLow(bits, d - 1) # <<>>
          \/ BigBit(kept, 0) = 1
    THEN BigMulAdd(kept, 1, 1) ELSE kept
RoundBits(bits, d, sticky) == RoundKept(bits, d, sticky, BigShr(bits, d))

\* mant * 2^exp with the zeros zero bits at the end of mant moved to the
\* exponent
OddShifted(mant, exp, zeros) ==
    [ok |-> TRUE, mant |-> BigShr(mant, zeros), exp |-> exp + zeros]
OddMantissa(mant, exp) ==
    OddShifted(mant, exp,
               CHOOSE z \in 0..BigBitLen(mant) :
                   BigBit(mant, z) = 1 /\ BigLow(mant, z) = <<>>)

\* the double nearest to (bits + a fraction) * 2^-s, as strtod rounds: to 53
\* bits, to even on a tie; sticky says that the fraction is not zero, d is
\* the number of bits rounded away and rounded what is left.  ok is FALSE
\* where strtod reports ERANGE: the rounded value is 2^1024 or more, or it
\* is below 2^-1022 and the number is not a multiple of 2^-1074.
RoundedQuotient(bits, sticky, s, d, rounded) ==
    LET \* the rounded value is in 2^(high - 1) .. 2^high
        high == BigBitLen(rounded) + d - s
        \* the bits below 2^-1074
        tiny == s + DenormUnit
    IN  IF bits = <<>> \/ high > DBL_MAX_EXP THEN NotNear
        ELSE IF high < DBL_MIN_EXP /\ (sticky \/ BigLow(bits, tiny) # <<>>)
        THEN NotNear
        ELSE OddMantissa(IF high >= DBL_MIN_EXP THEN rounded ELSE BigShr(bits, tiny),
                         IF high >= DBL_MIN_EXP THEN d - s ELSE DenormUnit)
RoundQuotient(bits, sticky, s) ==
    RoundedQuotient(bits, sticky, s, BigBitLen(bits) - DBL_MANT_DIG,
                    RoundBits(bits, BigBitLen(bits) - DBL_MANT_DIG, sticky))

\* the double nearest to n / m, for n, m > 0.  With t the difference of
\* their lengths in bits, n / m = (the quotient + a fraction) * 2^-(t + 55),
\* the quotient quot of 55 or 56 bits
NearestQuotient(quot, t) ==
    RoundQuotient(BigOfDigits(quot.bits, 1, Len(quot.bits), 2),
                  quot.rest # <<>>, t + QuotientBits - 1)
NearestAt(n, m, t) ==
    NearestQuotient(BigDivBits(IF t > 0 THEN BigShl(n, t) ELSE n,
                               IF t < 0 THEN BigShl(m, 0 - t) ELSE m, QuotientBits),
                    t)
NearestDouble(n, m) == NearestAt(n, m, BigBitLen(m) - BigBitLen(n))

\* ten times mant * 2^exp, rounded to an integer; ten is ten times mant
TenthsOfTen(ten, exp) ==
    IF exp >= 0 THEN BigShl(ten, exp)
    ELSE BigMulAdd(BigShr(ten, 0 - exp), 1, BigBit(ten, (0 - exp) - 1))
TenthsOf(mant, exp) == TenthsOfTen(BigMulAdd(mant, 10, 0), exp)

\* the double mant * 2^exp (mant odd), negated when neg: the int tenths when
\* it is the double near, the one nearest to tenths / 10
DoubleOfNear(neg, mant, exp, tenths, near) ==
    IF near.mant = mant /\ near.exp = exp
    THEN IF neg THEN 0 - BigToInt(tenths) ELSE BigToInt(tenths)
    ELSE Finite(neg, BigToString(mant), exp)
DoubleOfTenths(neg, mant, exp, tenths) ==
    IF tenths # <<>> /\ BigBitLen(tenths) <= 31
    THEN DoubleOfNear(neg, mant, exp, tenths, NearestDouble(tenths, <<10>>))
    ELSE Finite(neg, BigToString(mant), exp)
DoubleOf(neg, mant, exp) ==
    IF BigBitLen(mant) + exp <= 28 /\ BigBitLen(mant) + exp >= 0 - 4
    THEN DoubleOfTenths(neg, mant, exp, TenthsOf(mant, exp))
    ELSE Finite(neg, BigToString(mant), exp)

\* the double strtod returns for n / m; near is the double nearest to it
RoundedTo(neg, near) ==
    IF near.ok THEN [ok |-> TRUE, val |-> DoubleOf(neg, near.mant, near.exp)]
    ELSE NoDouble
Rounded(neg, n, m) == RoundedTo(neg, NearestDouble(n, m))

Zero(neg) == [ok |-> TRUE, val |-> IF neg THEN NegativeZero ELSE 0]

\* 10^n, for n <= 8
Pow10(n) ==
    <<1, 10, 100, 1000, 10000, 100000, 1000000, 10000000, 100000000>>[n + 1]

\* the number the first n of the decimal digits ds form, for n <= 9
RECURSIVE SmallNumber(_, _)
SmallNumber(ds, n) == IF n = 0 THEN 0 ELSE SmallNumber(ds, n - 1) * 10 + ds[n]

\* the exponent part of a numeral at position m of s, after the letter
\* mark: an optional sign and digits; 0 when there is none.  An exponent of
\* more than eight digits counts as 10^8: no numeral the model reads is long
\* enough to bring it back into the range of double.
ExponentOf(s, m, mark, from, ds) ==
    IF LowerChar(CharOr(s, m)) = mark /\ IsDigit(CharOr(s, from))
    THEN (IF CharOr(s, m + 1) = "-" THEN 0 - 1 ELSE 1)
         * (IF Len(ds) > 8 THEN Pow10(8) ELSE SmallNumber(ds, Len(ds)))
    ELSE 0
ExponentFrom(s, m, mark, from) ==
    ExponentOf(s, m, mark, from, DropZeros(DigitsFrom(s, from, 10)))
ExponentAt(s, m, mark) ==
    ExponentFrom(s, m, mark, IF CharOr(s, m + 1) \in {"-", "+"} THEN m + 2 ELSE m + 1)

\* the digits of the numeral at position j of s in the base: whole before
\* the point, frac after it, and the position after them
NumeralOf(s, base, whole, k) ==
    [whole |-> whole,
     frac |-> IF CharOr(s, k) = "." THEN DigitsFrom(s, k + 1, base) ELSE <<>>,
     point |-> CharOr(s, k) = ".",
     k |-> k]
NumeralAfter(s, j, base, whole) == NumeralOf(s, base, whole, j + Len(whole))
Numeral(s, j, base) == NumeralAfter(s, j, base, DigitsFrom(s, j, base))
NumeralEnd(num) == IF num.point THEN num.k + 1 + Len(num.frac) ELSE num.k

\* the digits lead without the zeros at their end, and the number of these
Significant(lead) ==
    [sig |-> SubSeq(lead, 1, Len(lead) - TrailingZeros(lead)),
     zeros |-> TrailingZeros(lead)]
Significand(num) == Significant(DropZeros(num.whole \o num.frac))

\* the double nearest to number * 10^e10; power is 10^|e10|
DecimalScaled(neg, number, e10, power) ==
    Rounded(neg, IF e10 >= 0 THEN BigMul(number, power) ELSE number,
                 IF e10 >= 0 THEN <<1>> ELSE power)

\* the double of the integer of the digits sig times 10^e10
DecimalOf(neg, sig, e10) ==
    IF sig = <<>> THEN Zero(neg)
    ELSE IF \/ e10 + Len(sig) > DBL_MAX_10_EXP + 1
            \/ e10 + Len(sig) < 0 - (DBL_MAX_10_EXP + DBL_MANT_DIG)
    THEN NoDouble
    ELSE IF e10 >= 0 - 1 /\ Len(sig) + e10 + 1 < Len(IntToString(INT32_MAX))
    THEN \* a number of tenths that is an int
         [ok |-> TRUE,
          val |-> (IF neg THEN 0 - 1 ELSE 1) * SmallNumber(sig, Len(sig)) * Pow10(e10 + 1)]
    ELSE DecimalScaled(neg, BigOfDigits(sig, 1, Len(sig), 10), e10,
                       BigPow10(IF e10 >= 0 THEN e10 ELSE 0 - e10))

\* the numeral num with the exponent exp
DecimalOfParts(neg, num, sd, exp) ==
    IF num.whole = <<>> /\ num.frac = <<>> THEN NoDouble
    ELSE DecimalOf(neg, sd.sig, exp - Len(num.frac) + sd.zeros)
DecimalOfNumeral(s, neg, num) ==
    DecimalOfParts(neg, num, Significand(num), ExponentAt(s, NumeralEnd(num), "e"))

\* strtod of the decimal numeral at position j of s: digits with an optional
\* fraction and an optional exponent
DecimalToDouble(s, j, neg) == DecimalOfNumeral(s, neg, Numeral(s, j, 10))

\* the double nearest to number * 2^shift
HexScaled(neg, number, shift) ==
    IF \/ BigBitLen(number) + shift > DBL_MAX_EXP
       \/ BigBitLen(number) + shift < DenormUnit - 1
    THEN NoDouble
    ELSE Rounded(neg, IF shift >= 0 THEN BigShl(number, shift) ELSE number,
                      BigShl(<<1>>, IF shift >= 0 THEN 0 ELSE 0 - shift))
HexOfParts(neg, num, sd, exp) ==
    IF sd.sig = <<>> THEN Zero(neg)
    ELSE HexScaled(neg, BigOfDigits(sd.sig, 1, Len(sd.sig), 16),
                   exp - 4 * Len(num.frac) + 4 * sd.zeros)
HexOfNumeral(s, neg, num) ==
    HexOfParts(neg, num, Significand(num), ExponentAt(s, NumeralEnd(num), "p"))

\* strtod of the hexadecimal numeral whose digits start at position j of s
\* (after 0x): digits with an optional fraction and an optional binary
\* exponent
HexToDouble(s, j, neg) == HexOfNumeral(s, neg, Numeral(s, j, 16))

\* the numeral of s after the white space and the sign, which end before
\* position j: a decimal numeral, a hexadecimal numeral after 0x, inf or
\* infinity, or nan, letters of either case
Unsigned(s, j, neg, word) ==
    IF word = "inf" THEN [ok |-> TRUE, val |-> Infinity(neg)]
    ELSE IF word = "nan" THEN [ok |-> TRUE, val |-> NaN]
    ELSE IF /\ CharOr(s, j) = "0" /\ LowerChar(CharOr(s, j + 1)) = "x"
            /\ \/ IsHexDigit(CharOr(s, j + 2))
               \/ CharOr(s, j + 2) = "." /\ IsHexDigit(CharOr(s, j + 3))
    THEN HexToDouble(s, j + 2, neg)
    ELSE DecimalToDouble(s, j, neg)
AfterSign(s, j, neg) == Unsigned(s, j, neg, Lower(SubSeq(s, j, Min({Len(s), j + 2}))))
Signed(s, i) ==
    AfterSign(s, IF CharOr(s, i) \in {"-", "+"} THEN i + 1 ELSE i, CharOr(s, i) = "-")

\* std::stod: strtod and the test of its result.  White space, an optional
\* sign, then the numeral; ok is FALSE when nothing is converted
\* (invalid_argument) and when strtod reports ERANGE (out_of_range): a
\* value that rounds past the largest double, or one below the smallest
\* normal double that no double holds exactly.
StoD(s) == Signed(s, SkipSpaces(s, 1))

\* the DataRow FetchFAOData builds from one element of the data array;
\* parsed is what std::stod makes of a Value that is a string
FAORowOf(elem, dataset, junk_year, junk_value, parsed) ==
    LET year_val == ObjGet(elem, "Year")
        val_node == ObjGet(elem, "Value")
        StrOf(key) == IF IsStr(ObjGet(elem, key)) THEN GetStr(ObjGet(elem, key)) ELSE ""
    IN  [dataset |-> dataset,
         area |-> StrOf("Area"),
         item |-> StrOf("Item"),
         element |-> StrOf("Element"),
         year |-> IF IsInt(year_val) THEN GetInt(year_val)
                  ELSE IF IsStr(year_val) THEN StoI(GetStr(year_val)).val
                  ELSE junk_year,
         value |-> IF IsReal(val_node) THEN GetReal(val_node)
                   ELSE IF IsInt(val_node) THEN IntToDouble(GetInt(val_node))
                   ELSE IF IsStr(val_node) /\ parsed.ok THEN parsed.val
                   ELSE junk_value,
         has_value |-> \/ IsReal(val_node) \/ IsInt(val_node)
                       \/ (IsStr(val_node) /\ parsed.ok),
         unit |-> StrOf("Unit")]
FAORow(elem, dataset, junk_year, junk_value) ==
    FAORowOf(elem, dataset, junk_year, junk_value,
             IF IsStr(ObjGet(elem, "Value")) THEN StoD(GetStr(ObjGet(elem, "Value")))
             ELSE NoDouble)

\* the element filter: a record is skipped when its Element is a string that
\* does not contain the requested element, case-insensitively
FAOSkips(elem, element) ==
    LET elem_val == ObjGet(elem, "Element")
    IN  IsStr(elem_val) /\ ~Contains(Lower(GetStr(elem_val)), Lower(element))

\* the loop over data: the rows of the first n elements; an element the
\* filter rejects is passed over before its row is declared
RECURSIVE FAORows(_, _, _, _, _)
FAORows(data_arr, n, dataset, element, junk) ==
    IF n = 0 THEN <<>>
    ELSE LET rows == FAORows(data_arr, n - 1, dataset, element, junk)
             elem == ArrGet(data_arr, n - 1)
         IN  IF FAOSkips(elem, element) THEN rows
             ELSE Append(rows, FAORow(elem, dataset, Held(junk, n, rows, "year"),
                                      Held(junk, n, rows, "value")))

\* FetchFAOData from the JSON parse on: the rows the body yields
FAOParse(body, dataset, element, junk) ==
    LET data_arr == ObjGet(YyjsonRead(body), "data")
    IN  IF ~IsArr(data_arr) THEN <<>>
        ELSE FAORows(data_arr, ArrSize(data_arr), dataset, element, junk)

\* SudanFAO::Execute: the output columns of one row
FAOOut(row) ==
    [dataset |-> Val(row.dataset),
     area |-> Val(row.area),
     item |-> Val(row.item),
     element |-> Val(row.element),
     year |-> Val(row.year),
     value |-> NumOrNull(row.has_value, row.value),
     unit |-> StrOrNull(row.unit)]

\* FetchFAOData up to the cache lookup, and the rest of it on a hit
FAOGet(e, Junks) ==
    /\ AtStep(e, "fao", "get")
    /\ LET qr == q[e]
           url == FAOUrl(qr.args[1], qr.countries[qr.ci])
           r == CacheGet(cache_, url, now)
       IN  /\ cache_' = r.map
           /\ IF BodyEmpty(r.ret)
              THEN q' = [q EXCEPT ![e] = [LogMiss(qr) EXCEPT !.pc = "http"]]
              ELSE \E junk \in {j \in Junks : IsJunk(j)} :
                     q' = [q EXCEPT ![e] =
                             NextCountry(
                               AppendRows(qr, url, TRUE, CachedResponse(r.ret),
                                          FAOParse(r.ret, qr.args[1], qr.args[2], junk)),
                               r.map)]
    /\ UNCHANGED calls
    /\ CacheFrame

\* FetchFAOData from the transport call on
FAOHttp(e, Nets, Junks) ==
    /\ AtStep(e, "fao", "wait")
    /\ \E net \in Nets, junk \in {j \in Junks : IsJunk(j)} :
         LET qr == q[e]
             url == FAOUrl(qr.args[1], qr.countries[qr.ci])
             response == HttpGet(net)
             stored == CachePut(cache_, url, response.body, now)
         IN  IF ResponseFailed(response)
             THEN /\ cache_' = cache_
                  /\ q' = [q EXCEPT ![e] =
                             NextCountry(
                               AppendRows(qr, url, FALSE, response, <<>>), cache_)]
             ELSE /\ cache_' = stored
                  /\ q' = [q EXCEPT ![e] =
                             NextCountry(
                               AppendRows(qr, url, FALSE, response,
                                          FAOParse(response.body, qr.args[1],
                                                   qr.args[2], junk)),
                               stored)]
    /\ UNCHANGED calls
    /\ CacheFrame

-----------------------------------------------------------------------------
(* ILO *)

\* the position of the first c in s at or after position i, 0 when none
RECURSIVE FindChar(_, _, _)
FindChar(s, c, i) ==
    IF i > Len(s) THEN 0
    ELSE IF CharAt(s, i) = c THEN i ELSE FindChar(s, c, i + 1)

\* A size_t is the four 16-bit limbs of its 64 bits, the least significant
\* first.
SizeT(n) == <<n % Limb, n \div Limb, 0, 0>>

\* index < size, for a size_t index and the size of a vector of the model
SizeBelow(index, size) ==
    /\ index[3] = 0 /\ index[4] = 0 /\ index[2] < HalfLimb
    /\ Signed32(index[2], index[1]) < size

\* the int of a size_t that is below the size of a vector of the model
SizeToInt(index) == Signed32(index[2], index[1])

\* std::stoul as ParseKeyIndices uses it: 0 when it throws, on no conversion
\* and on a magnitude past 2^64 - 1; the magnitude of the digits otherwise,
\* negated modulo 2^64 after a minus sign, as strtoul does
StoULOrZero(s) ==
    LET r == StrToInteger(s)
    IN  IF ~r.ok \/ r.over THEN SizeT(0)
        ELSE IF r.neg /\ r.limbs # ZeroLimbs THEN NegateLimbs(r.limbs)
        ELSE r.limbs

\* ParseKeyIndices: the indices of a colon-separated key, from position start
RECURSIVE ParseKeyFrom(_, _)
ParseKeyFrom(key, start) ==
    IF start > Len(key) + 1 THEN <<>>
    ELSE LET found == FindChar(key, ":", start)
             colon == IF found = 0 THEN Len(key) + 1 ELSE found
             piece == IF colon > start THEN SubSeq(key, start, colon - 1) ELSE ""
         IN  <<StoULOrZero(piece)>> \o ParseKeyFrom(key, colon + 1)

ParseKeyIndices(key) == ParseKeyFrom(key, 1)

ExtractDimValues(dim) ==
    LET values == ObjGet(dim, "values")
    IN  IF ~IsArr(values) THEN <<>>
        ELSE [i \in 1..ArrSize(values) |->
                 LET val_obj == ArrGet(values, i - 1)
                     val_id == ObjGet(val_obj, "id")
                     val_name == ObjGet(val_obj, "name")
                 IN  IF IsStr(val_id) THEN GetStr(val_id)
                     ELSE IF IsStr(val_name) THEN GetStr(val_name)
                     ELSE ""]

\* the vector<DimInfo> built from one array of dimensions
DimInfos(dim_arr) ==
    IF ~IsArr(dim_arr) THEN <<>>
    ELSE [i \in 1..ArrSize(dim_arr) |->
             LET dim == ArrGet(dim_arr, i - 1)
                 dim_id == ObjGet(dim, "id")
             IN  [id |-> IF IsStr(dim_id) THEN GetStr(dim_id) ELSE "",
                  values |-> ExtractDimValues(dim)]]

LookupDimValue(dims, dim_id, indices) ==
    LET hits == {i \in 1..Len(dims) :
                    /\ i <= Len(indices)
                    /\ dims[i].id = dim_id
                    /\ SizeBelow(indices[i], Len(dims[i].values))}
    IN  IF hits = {} THEN ""
        ELSE dims[Min(hits)].values[SizeToInt(indices[Min(hits)]) + 1]

\* ExtractObsValue: whether there is a value, and the value
ExtractObsValue(obs_val) ==
    LET first_val == ArrGet(obs_val, 0)
    IN  IF IsArr(obs_val) /\ ArrSize(obs_val) > 0 /\ IsReal(first_val)
        THEN [ok |-> TRUE, value |-> GetReal(first_val)]
        ELSE IF IsArr(obs_val) /\ ArrSize(obs_val) > 0 /\ IsInt(first_val)
        THEN [ok |-> TRUE, value |-> IntToDouble(GetInt(first_val))]
        ELSE [ok |-> FALSE, value |-> 0]

\* the dataSets array: at the root (SDMX-JSON 1.0) or under data (2.0)
ILODataSets(root_val) ==
    LET at_root == ObjGet(root_val, "dataSets")
        data_obj == ObjGet(root_val, "data")
    IN  IF (~IsArr(at_root) \/ ArrSize(at_root) = 0) /\ IsObj(data_obj)
        THEN ObjGet(data_obj, "dataSets") ELSE at_root

\* the structure: at the root, or the first of data.structures
ILOStructure(root_val) ==
    LET at_root == ObjGet(root_val, "structure")
        data_obj == ObjGet(root_val, "data")
        structures_arr == ObjGet(data_obj, "structures")
    IN  IF at_root # JAbsent THEN at_root
        ELSE IF IsObj(data_obj) /\ IsArr(structures_arr) /\ ArrSize(structures_arr) > 0
        THEN ArrGet(structures_arr, 0)
        ELSE JAbsent

RECURSIVE Flatten(_)
Flatten(seqs) == IF seqs = <<>> THEN <<>> ELSE Head(seqs) \o Flatten(Tail(seqs))

\* the rows of one member of the series object
ILOSeriesRows(member, series_dims, obs_dims, indicator, country_iso3) ==
    LET series_indices == ParseKeyIndices(member.k)
        sex == LookupDimValue(series_dims, "SEX", series_indices)
        age == LookupDimValue(series_dims, "AGE", series_indices)
        classif1 == IF age = "" THEN LookupDimValue(series_dims, "CLASSIF1", series_indices)
                    ELSE age
        obs == ObjGet(member.val, "observations")
        Row(om) ==
            [indicator |-> indicator, country |-> country_iso3, sex |-> sex,
             classif1 |-> classif1,
             year |-> StoI(LookupDimValue(obs_dims, "TIME_PERIOD",
                                          ParseKeyIndices(om.k))).val,
             value |-> ExtractObsValue(om.val).value,
             has_value |-> ExtractObsValue(om.val).ok]
        HasValue(row) == row.has_value
    IN  IF ~IsObj(obs) THEN <<>>
        ELSE SelectSeq([j \in 1..Len(obs.v) |-> Row(obs.v[j])], HasValue)

\* FetchILOData from the JSON parse on: the rows the body yields
ILOParse(body, indicator, country_iso3) ==
    LET root_val == YyjsonRead(body)
        datasets_arr == ILODataSets(root_val)
        dataset == ArrGet(datasets_arr, 0)
        dimensions == ObjGet(ILOStructure(root_val), "dimensions")
        series_dims == DimInfos(ObjGet(dimensions, "series"))
        obs_dims == DimInfos(ObjGet(dimensions, "observation"))
        series == ObjGet(dataset, "series")
    IN  IF ~IsArr(datasets_arr) \/ ArrSize(datasets_arr) = 0 \/ ~IsObj(series)
        THEN <<>>
        ELSE Flatten([s \in 1..Len(series.v) |->
                         ILOSeriesRows(series.v[s], series_dims, obs_dims,
                                       indicator, country_iso3)])

\* a probe that stops at any 200 answer
ILOProbeStatusOnly(response) == response.status_code = 200

\* the probe succeeded: status 200, no error, a non-empty body
ILOProbeSucceeded(response) ==
    response.status_code = 200 /\ response.error = "" /\ ~BodyEmpty(response.body)

\* SudanILO::Execute: the output columns of one row
ILOOut(row) ==
    [indicator |-> Val(row.indicator),
     country |-> Val(row.country),
     sex |-> StrOrNull(row.sex),
     classif1 |-> StrOrNull(row.classif1),
     year |-> Val(row.year),
     value |-> NumOrNull(row.has_value, row.value)]

\* one turn of the probing loop up to the cache lookup; on a hit the loop is
\* left and the body decoded
ILOGet(e) ==
    /\ AtStep(e, "ilo", "get")
    /\ LET qr == q[e]
           url == ILOUrl(qr.args[1], qr.countries[qr.ci], key_suffixes[qr.ks])
           r == CacheGet(cache_, url, now)
       IN  /\ cache_' = r.map
           /\ q' = [q EXCEPT ![e] =
                      IF BodyEmpty(r.ret)
                      THEN [LogMiss(qr) EXCEPT !.pc = "http"]
                      ELSE NextCountry(
                             AppendRows(qr, url, TRUE, CachedResponse(r.ret),
                                        ILOParse(r.ret, qr.args[1], qr.countries[qr.ci])),
                             r.map)]
    /\ UNCHANGED calls
    /\ CacheFrame

\* one turn of the probing loop from the transport call on: on success the
\* body is stored and decoded; otherwise the next suffix is tried, and after
\* the last one the fetch returns with no row
ILOHttp(e, Nets) ==
    /\ AtStep(e, "ilo", "wait")
    /\ \E net \in Nets :
         LET qr == q[e]
             url == ILOUrl(qr.args[1], qr.countries[qr.ci], key_suffixes[qr.ks])
             response == HttpGet(net)
             stored == CachePut(cache_, url, response.body, now)
             failed == AppendRows(qr, url, FALSE, response, <<>>)
         IN  IF ILOProbeSucceeded(response)
             THEN /\ cache_' = stored
                  /\ q' = [q EXCEPT ![e] =
                             NextCountry(
                               AppendRows(qr, url, FALSE, response,
                                          ILOParse(response.body, qr.args[1],
                                                   qr.countries[qr.ci])),
                               stored)]
             ELSE /\ cache_' = cache_
                  /\ q' = [q EXCEPT ![e] =
                             IF qr.ks < Len(key_suffixes)
                             THEN [failed EXCEPT !.ks = @ + 1, !.pc = "get"]
                             ELSE NextCountry(failed, cache_)]
    /\ UNCHANGED calls
    /\ CacheFrame

-----------------------------------------------------------------------------
(* The indicator lists and the search: SUDAN_WB_Indicators,
   SUDAN_WHO_Indicators, SUDAN_Search *)

\* an indicator list keeps an element when the search is empty or the name
\* or the id contains it, without regard to case
SearchKeeps(search, name, id) ==
    LET search_lower == Lower(search)
    IN  \/ search_lower = ""
        \/ Contains(Lower(name), search_lower)
        \/ Contains(Lower(id), search_lower)

\* yyjson_is_str(val) ? yyjson_get_str(val) : the empty string the member
\* was constructed with
StrOrEmpty(val) == IF IsStr(val) THEN GetStr(val) ELSE ""

\* the IndicatorInfo SudanWBIndicators::Init builds from one element
WBIndicatorInfo(elem) ==
    LET source_obj == ObjGet(elem, "source")
    IN  [id |-> StrOrEmpty(ObjGet(elem, "id")),
         name |-> StrOrEmpty(ObjGet(elem, "name")),
         source |-> IF IsObj(source_obj)
                    THEN StrOrEmpty(ObjGet(source_obj, "value")) ELSE "",
         source_note |-> StrOrEmpty(ObjGet(elem, "sourceNote"))]

\* one turn of the loop of SudanWBIndicators::Init from the JSON parse on:
\* whether the loop is left (break), the page count, the rows of the page
WBIndicatorsPage(body, total_pages, search) ==
    LET root_val == YyjsonRead(body)
        meta == ArrGet(root_val, 0)
        pages_val == ObjGet(meta, "pages")
        data_arr == ArrGet(root_val, 1)
        all == [i \in 1..ArrSize(data_arr) |-> WBIndicatorInfo(ArrGet(data_arr, i - 1))]
        Kept(info) == SearchKeeps(search, info.name, info.id)
    IN  IF ~IsArr(root_val) \/ ArrSize(root_val) < 2
        THEN [stop |-> TRUE, total_pages |-> total_pages, rows |-> <<>>]
        ELSE [stop |-> FALSE,
              total_pages |-> IF IsObj(meta) /\ IsInt(pages_val)
                              THEN GetInt(pages_val) ELSE total_pages,
              rows |-> IF IsArr(data_arr) THEN SelectSeq(all, Kept) ELSE <<>>]

\* the IndicatorInfo SudanWHOIndicators::Init builds from one element
WHOIndicatorInfo(elem) ==
    [code |-> StrOrEmpty(ObjGet(elem, "IndicatorCode")),
     name |-> StrOrEmpty(ObjGet(elem, "IndicatorName")),
     language |-> StrOrEmpty(ObjGet(elem, "Language"))]

\* SudanWHOIndicators::Init from the JSON parse on: the rows the body yields
WHOIndicatorsParse(body, search) ==
    LET value_arr == ObjGet(YyjsonRead(body), "value")
        all == [i \in 1..ArrSize(value_arr) |-> WHOIndicatorInfo(ArrGet(value_arr, i - 1))]
        Kept(info) == SearchKeeps(search, info.name, info.code)
    IN  IF ~IsArr(value_arr) THEN <<>> ELSE SelectSeq(all, Kept)

\* the SearchResult rows of one array of indicators: the elements whose id
\* and name are strings, one of which contains the query
SearchResults(provider, arr, id_key, name_key, query) ==
    LET all == [i \in 1..ArrSize(arr) |->
                   LET elem == ArrGet(arr, i - 1)
                   IN  [provider |-> provider,
                        indicator_id |-> GetStr(ObjGet(elem, id_key)),
                        indicator_name |-> GetStr(ObjGet(elem, name_key)),
                        strings |-> IsStr(ObjGet(elem, id_key))
                                    /\ IsStr(ObjGet(elem, name_key))]]
        Kept(result) ==
            /\ result.strings
            /\ \/ Contains(Lower(result.indicator_name), Lower(query))
               \/ Contains(Lower(result.indicator_id), Lower(query))
    IN  [i \in 1..Len(SelectSeq(all, Kept)) |->
            [provider |-> provider,
             indicator_id |-> SelectSeq(all, Kept)[i].indicator_id,
             indicator_name |-> SelectSeq(all, Kept)[i].indicator_name]]

\* SudanSearch::SearchWorldBank from the JSON parse on
SearchWorldBank(body, query) ==
    LET root_val == YyjsonRead(body)
        data_arr == ArrGet(root_val, 1)
    IN  IF ~IsArr(root_val) \/ ArrSize(root_val) < 2 \/ ~IsArr(data_arr) THEN <<>>
        ELSE SearchResults("worldbank", data_arr, "id", "name", query)

\* SudanSearch::SearchWHO from the JSON parse on
SearchWHO(body, query) ==
    LET value_arr == ObjGet(YyjsonRead(body), "value")
    IN  IF ~IsArr(value_arr) THEN <<>>
        ELSE SearchResults("who", value_arr, "IndicatorCode", "IndicatorName", query)

\* Execute of the three functions: the output columns of one row
WBIndicatorsOut(row) ==
    [indicator_id |-> Val(row.id),
     indicator_name |-> Val(row.name),
     source |-> Val(row.source),
     source_note |-> StrOrNull(row.source_note)]
WHOIndicatorsOut(row) ==
    [indicator_code |-> Val(row.code),
     indicator_name |-> Val(row.name),
     language |-> StrOrNull(row.language)]
SearchOut(row) ==
    [provider |-> Val(row.provider),
     indicator_id |-> Val(row.indicator_id),
     indicator_name |-> Val(row.indicator_name)]

\* one turn of the loop of SudanWBIndicators::Init up to the cache lookup,
\* and the rest of it on a hit
WBIndicatorsGet(e) ==
    /\ AtStep(e, "wb_indicators", "get")
    /\ LET qr == q[e]
           url == WBIndicatorsUrl(qr.page)
           r == CacheGet(cache_, url, now)
           result == WBIndicatorsPage(r.ret, qr.total_pages, qr.args[1])
       IN  /\ cache_' = r.map
           /\ \E overflow \in OverflowsAt(qr.page) :
                 q' = [q EXCEPT ![e] =
                         IF BodyEmpty(r.ret)
                         THEN [LogMiss(qr) EXCEPT !.pc = "http"]
                         ELSE WBAfterPage(
                                AppendRows(qr, url, TRUE, CachedResponse(r.ret),
                                           result.rows),
                                result, r.map, overflow)]
    /\ UNCHANGED calls
    /\ CacheFrame

\* one turn of the loop from the return of the transport call on
WBIndicatorsHttp(e, Nets) ==
    /\ AtStep(e, "wb_indicators", "wait")
    /\ \E net \in Nets, overflow \in OverflowsAt(q[e].page) :
         LET qr == q[e]
             url == WBIndicatorsUrl(qr.page)
             response == HttpGet(net)
             stored == CachePut(cache_, url, response.body, now)
             result == WBIndicatorsPage(response.body, qr.total_pages, qr.args[1])
         IN  IF ResponseFailed(response)
             THEN /\ cache_' = cache_
                  /\ q' = [q EXCEPT ![e] =
                             NextCountry(
                               AppendRows(qr, url, FALSE, response, <<>>), cache_)]
             ELSE /\ cache_' = stored
                  /\ q' = [q EXCEPT ![e] =
                             WBAfterPage(
                               AppendRows(qr, url, FALSE, response, result.rows),
                               result, stored, overflow)]
    /\ UNCHANGED calls
    /\ CacheFrame

\* SudanWHOIndicators::Init up to the cache lookup, and the rest of it on a
\* hit
WHOIndicatorsGet(e) ==
    /\ AtStep(e, "who_indicators", "get")
    /\ LET qr == q[e]
           r == CacheGet(cache_, WHOIndicatorsUrl, now)
       IN  /\ cache_' = r.map
           /\ q' = [q EXCEPT ![e] =
                      IF BodyEmpty(r.ret)
                      THEN [LogMiss(qr) EXCEPT !.pc = "http"]
                      ELSE NextCountry(
                             AppendRows(qr, WHOIndicatorsUrl, TRUE, CachedResponse(r.ret),
                                        WHOIndicatorsParse(r.ret, qr.args[1])),
                             r.map)]
    /\ UNCHANGED calls
    /\ CacheFrame

\* SudanWHOIndicators::Init from the return of the transport call on
WHOIndicatorsHttp(e, Nets) ==
    /\ AtStep(e, "who_indicators", "wait")
    /\ \E net \in Nets :
         LET qr == q[e]
             response == HttpGet(net)
             stored == CachePut(cache_, WHOIndicatorsUrl, response.body, now)
         IN  IF ResponseFailed(response)
             THEN /\ cache_' = cache_
                  /\ q' = [q EXCEPT ![e] =
                             NextCountry(
                               AppendRows(qr, WHOIndicatorsUrl, FALSE, response, <<>>),
                               cache_)]
             ELSE /\ cache_' = stored
                  /\ q' = [q EXCEPT ![e] =
                             NextCountry(
                               AppendRows(qr, WHOIndicatorsUrl, FALSE, response,
                                          WHOIndicatorsParse(response.body, qr.args[1])),
                               stored)]
    /\ UNCHANGED calls
    /\ CacheFrame

\* SearchWorldBank, then SearchWHO, from the return of the transport call
\* on: neither reads or writes the cache
SearchHttp(e, Nets) ==
    /\ AtStep(e, "search", "wait")
    /\ \E net \in Nets :
         LET qr == q[e]
             response == HttpGet(net)
             results == IF ResponseFailed(response) THEN <<>>
                        ELSE IF qr.role = 1
                        THEN SearchWorldBank(response.body, qr.args[1])
                        ELSE SearchWHO(response.body, qr.args[1])
             after == [AppendRows(qr, SearchUrls[qr.role], FALSE, response, results)
                         EXCEPT !.usedCache = qr.usedCache]
         IN  q' = [q EXCEPT ![e] =
                     IF qr.role < Len(SearchUrls)
                     THEN [after EXCEPT !.role = @ + 1, !.pc = "http"]
                     ELSE NextCountry(after, cache_)]
    /\ UNCHANGED <<cache_, calls>>
    /\ CacheFrame

\* the URL the fetch of execution e is at
FetchUrl(qr) ==
    CASE qr.provider = "worldbank" ->
           WorldBankUrl(qr.args[1], qr.countries[qr.ci], qr.page, FilterResult)
      [] qr.provider = "who" -> WHOUrl(qr.args[1], qr.countries[qr.ci])
      [] qr.provider = "fao" -> FAOUrl(qr.args[1], qr.countries[qr.ci])
      [] qr.provider = "unhcr" -> UNHCRUrl(UNHCRParams[qr.role], qr.countries[qr.ci])
      [] qr.provider = "ilo" ->
           ILOUrl(qr.args[1], qr.countries[qr.ci], key_suffixes[qr.ks])
      [] qr.provider = "wb_indicators" -> WBIndicatorsUrl(qr.page)
      [] qr.provider = "who_indicators" -> WHOIndicatorsUrl
      [] OTHER -> SearchUrls[qr.role]

\* HttpClient::Get is called: the request goes out with the timeout of the
\* settings passed.  The caller holds no mutex and blocks until the answer
\* comes (<provider>Http, SearchHttp); the other executions go on meanwhile.
HttpCall(e) ==
    /\ q[e].phase = "fetch" /\ q[e].pc = "http"
    /\ calls' = Append(calls, Request(e, FetchUrl(q[e])))
    /\ q' = [q EXCEPT ![e] = [@ EXCEPT !.pc = "wait"]]
    /\ UNCHANGED cache_
    /\ CacheFrame

-----------------------------------------------------------------------------
(* Execute *)

OutRow(provider, row) ==
    CASE provider = "worldbank" -> WorldBankOut(row)
      [] provider = "who" -> WHOOut(row)
      [] provider = "fao" -> FAOOut(row)
      [] provider = "unhcr" -> UNHCROut(row)
      [] provider = "ilo" -> ILOOut(row)
      [] provider = "wb_indicators" -> WBIndicatorsOut(row)
      [] provider = "who_indicators" -> WHOIndicatorsOut(row)
      [] OTHER -> SearchOut(row)

\* std::min<idx_t>(STANDARD_VECTOR_SIZE, rows.size() - current_row)
OutputSize(qr) ==
    IF Len(qr.rows) - qr.current_row < STANDARD_VECTOR_SIZE
    THEN Len(qr.rows) - qr.current_row ELSE STANDARD_VECTOR_SIZE

\* a cursor that moves by one row whatever was output
AdvanceByOne(current_row, output_size) == current_row + 1

\* a cursor that moves by a whole chunk whatever was output
AdvanceByChunk(current_row, output_size) == current_row + STANDARD_VECTOR_SIZE

\* state.current_row += output_size
Advance(current_row, output_size) == current_row + output_size

\* <provider>::Execute: one chunk
Execute(e) ==
    /\ q[e].phase = "ready"
    /\ q[e].idle <= MaxIdleCalls
    /\ LET qr == q[e]
           output_size == OutputSize(qr)
           chunk == [i \in 1..output_size |->
                        OutRow(qr.provider, qr.rows[qr.current_row + i])]
       IN  q' = [q EXCEPT ![e] =
                   IF output_size = 0
                   THEN [qr EXCEPT !.out = <<>>, !.idle = @ + 1,
                                   !.before = qr.current_row]
                   ELSE [qr EXCEPT !.out = chunk, !.emitted = @ \o chunk,
                                   !.current_row = Advance(@, output_size),
                                   !.before = qr.current_row]]
    /\ UNCHANGED <<cache_, calls>>
    /\ CacheFrame

-----------------------------------------------------------------------------
(* The clock *)

LongStep == CACHE_TTL_SECONDS * TicksPerSecond
MaxClock == MaxLong * LongStep + MaxFine

\* steady_clock is monotonic; it advances by one tick or by one TTL
Tick ==
    /\ \E d \in {1, LongStep} :
          /\ now + d <= MaxClock
          /\ d = 1 => (now % LongStep) < MaxFine
          /\ now' = now + d
    /\ UNCHANGED <<queryVars, puts, fn, cache_, last, lastPut, evicted, mutex_, th, seqCache>>

-----------------------------------------------------------------------------
(* Sequential use of the cache: one caller, whole operations *)

\* no pure function has been called
NoCall == [f |-> "none", arg |-> "filter", filter |-> FilterResult, code |-> "",
           prev |-> "", out |-> "", n |-> 0]

NoPut == [valid |-> FALSE, key |-> WHOUrl("POP", "SDN"), body |-> EmptyBody, time |-> 0]
NoOp == [op |-> "none", key |-> WHOUrl("POP", "SDN"), ret |-> EmptyBody,
         time |-> 0, present |-> FALSE, age |-> 0, stale |-> FALSE, wasEvicted |-> FALSE,
         afterPut |-> NoPut]

ThreadIdle == [pc |-> "idle", op |-> "none", key |-> WHOUrl("POP", "SDN"),
               body |-> EmptyBody, ret |-> EmptyBody, expected |-> EmptyBody]

InitCache ==
    /\ cache_ = EmptyMap
    /\ now = 0
    /\ last = NoOp
    /\ lastPut = NoPut
    /\ evicted = {}
    /\ mutex_ = "free"
    /\ th = [t \in Threads |-> ThreadIdle]
    /\ seqCache = EmptyMap
    /\ q = [t \in Threads |-> QueryNew]
    /\ calls = <<>>
    /\ puts = EmptyMap
    /\ fn = NoCall

\* history: the entry Get(url) is about to find is more than the TTL old, in
\* whole seconds
FindsStale(url) ==
    /\ url \in DOMAIN cache_
    /\ (now - cache_[url].timestamp) \div TicksPerSecond > CACHE_TTL_SECONDS

Get(url) ==
    LET r == CacheGet(cache_, url, now)
        present == url \in DOMAIN cache_
    IN  /\ cache_' = r.map
        /\ last' = [op |-> "Get", key |-> url, ret |-> r.ret,
                    time |-> now, present |-> present,
                    age |-> IF present THEN now - cache_[url].timestamp ELSE 0,
                    stale |-> FindsStale(url),
                    wasEvicted |-> url \in evicted,
                    afterPut |-> lastPut]
        /\ lastPut' = NoPut
        /\ evicted' = IF FindsStale(url) THEN evicted \cup {url} ELSE evicted
        /\ UNCHANGED <<queryVars, puts, fn, now, mutex_, th, seqCache>>

Put(url, body) ==
    /\ cache_' = CachePut(cache_, url, body, now)
    /\ last' = [NoOp EXCEPT !.op = "Put", !.key = url, !.ret = body, !.time = now]
    /\ lastPut' = [valid |-> TRUE, key |-> url, body |-> body, time |-> now]
    /\ evicted' = evicted \ {url}
    /\ puts' = MapAssign(puts, url, [body |-> body, time |-> now])
    /\ UNCHANGED <<queryVars, fn, now, mutex_, th, seqCache>>

Clear ==
    /\ cache_' = CacheClear(cache_)
    /\ last' = [NoOp EXCEPT !.op = "Clear", !.time = now]
    /\ lastPut' = NoPut
    /\ puts' = EmptyMap
    /\ UNCHANGED <<queryVars, fn, now, evicted, mutex_, th, seqCache>>

Init == InitCache

Next ==
    \/ \E url \in CacheKeys : Get(url)
    \/ \E url \in CacheKeys, body \in CacheBodies : Put(url, body)
    \/ Clear
    \/ Tick

Spec == Init /\ [][Next]_vars

-----------------------------------------------------------------------------
(* Concurrent use of the cache: each thread runs Get, Put or Clear statement *)
(* by statement.  pc: idle -> lock -> find / check / store / clear -> unlock *)

CacheOps == {"Get", "Put", "Clear"}
\* the bodies the threads store: any string, the empty one too (the body of
\* an answer 200 that has none)
ThreadBodies == CacheBodies
InCritical == {"find", "check", "store", "clear", "unlock"}

\* a thread calls an operation of ResponseCache::Instance()
Call(t) ==
    /\ th[t].pc = "idle"
    /\ \E op \in CacheOps, url \in CacheKeys, body \in ThreadBodies :
          /\ op # "Put" => body = EmptyBody
          /\ op = "Clear" => url = ThreadIdle.key
          /\ th' = [th EXCEPT ![t] = [ThreadIdle EXCEPT !.pc = "lock", !.op = op,
                                                        !.key = url, !.body = body]]
    /\ UNCHANGED <<queryVars, puts, fn, cache_, now, last, lastPut, evicted, mutex_, seqCache>>

\* a lock that does not wait for the holder
CanLockAlways(t) == TRUE

\* std::lock_guard<std::mutex> lock(mutex_) may proceed
CanLock(t) == mutex_ = "free"

Lock(t) ==
    /\ th[t].pc = "lock"
    /\ CanLock(t)
    /\ mutex_' = t
    /\ th' = [th EXCEPT ![t].pc = CASE th[t].op = "Get" -> "find"
                                    [] th[t].op = "Put" -> "store"
                                    [] OTHER -> "clear"]
    /\ UNCHANGED <<queryVars, puts, fn, cache_, now, last, lastPut, evicted, seqCache>>

\* auto it = cache_.find(url); if (it == cache_.end()) return "";
GetFind(t) ==
    /\ th[t].pc = "find"
    /\ IF th[t].key \in DOMAIN cache_
       THEN /\ th' = [th EXCEPT ![t].pc = "check"]
            /\ UNCHANGED seqCache
       ELSE LET r == CacheGet(seqCache, th[t].key, now)
            IN  /\ th' = [th EXCEPT ![t].pc = "unlock", ![t].ret = EmptyBody,
                                    ![t].expected = r.ret]
                /\ seqCache' = r.map
    /\ UNCHANGED <<queryVars, puts, fn, cache_, now, last, lastPut, evicted, mutex_>>

\* now, elapsed, the TTL test, erase or return it->second.body.  When the
\* entry it points to is gone (the map was changed under the reader) the
\* read is of freed memory and returns any string.
GetCheck(t) ==
    /\ th[t].pc = "check"
    /\ LET url == th[t].key
           r == CacheGet(seqCache, url, now)
       IN  /\ seqCache' = r.map
           /\ IF url \in DOMAIN cache_
              THEN LET elapsed == DurationCastSeconds(now - cache_[url].timestamp)
                   IN  IF elapsed > CACHE_TTL_SECONDS
                       THEN /\ cache_' = MapErase(cache_, url)
                            /\ th' = [th EXCEPT ![t].pc = "unlock",
                                                ![t].ret = EmptyBody,
                                                ![t].expected = r.ret]
                       ELSE /\ cache_' = cache_
                            /\ th' = [th EXCEPT ![t].pc = "unlock",
                                                ![t].ret = cache_[url].body,
                                                ![t].expected = r.ret]
              ELSE /\ cache_' = cache_
                   /\ \E any \in CacheBodies :
                         th' = [th EXCEPT ![t].pc = "unlock", ![t].ret = any,
                                         ![t].expected = r.ret]
    /\ UNCHANGED <<queryVars, puts, fn, now, last, lastPut, evicted, mutex_>>

\* entry.body = body; entry.timestamp = now(); cache_[url] = entry
PutStore(t) ==
    /\ th[t].pc = "store"
    /\ cache_' = MapAssign(cache_, th[t].key, CacheEntry(th[t].body, now))
    /\ seqCache' = CachePut(seqCache, th[t].key, th[t].body, now)
    /\ th' = [th EXCEPT ![t].pc = "unlock"]
    /\ UNCHANGED <<queryVars, puts, fn, now, last, lastPut, evicted, mutex_>>

\* cache_.clear()
ClearAll(t) ==
    /\ th[t].pc = "clear"
    /\ cache_' = EmptyMap
    /\ seqCache' = CacheClear(seqCache)
    /\ th' = [th EXCEPT ![t].pc = "unlock"]
    /\ UNCHANGED <<queryVars, puts, fn, now, last, lastPut, evicted, mutex_>>

\* an operation that returns with the mutex still locked
UnlockKeepsMutex(t) ==
    /\ th[t].pc = "unlock"
    /\ th' = [th EXCEPT ![t] = ThreadIdle]
    /\ UNCHANGED <<queryVars, puts, fn, cache_, now, last, lastPut, evicted, mutex_, seqCache>>

\* the lock_guard's destructor, as the operation returns
Unlock(t) ==
    /\ th[t].pc = "unlock"
    /\ mutex_' = "free"
    /\ th' = [th EXCEPT ![t] = ThreadIdle]
    /\ UNCHANGED <<queryVars, puts, fn, cache_, now, last, lastPut, evicted, seqCache>>

NextConc ==
    \/ \E t \in Threads : Call(t)
    \/ \E t \in Threads : Lock(t)
    \/ \E t \in Threads : GetFind(t)
    \/ \E t \in Threads : GetCheck(t)
    \/ \E t \in Threads : PutStore(t)
    \/ \E t \in Threads : ClearAll(t)
    \/ \E t \in Threads : Unlock(t)
    \/ Tick

SpecConc == InitCache /\ [][NextConc]_vars

-----------------------------------------------------------------------------
(* Query executions that share the cache: each runs the cache operations of *)
(* its fetch statement by statement, and its transport calls between them   *)

\* the bodies the servers answer with
FetchNets == {NetFail, NetAnswer(404, GarbageBody)}
                 \cup {NetAnswer(200, body) : body \in ThreadBodies}

\* auto response = HttpClient::Get(settings, url): the call begins.  The
\* execution is between two cache operations.
HttpBegin(t) ==
    /\ th[t].pc = "idle"
    /\ \E url \in CacheKeys : th' = [th EXCEPT ![t] = [ThreadIdle EXCEPT !.pc = "http", !.key = url]]
    /\ UNCHANGED <<queryVars, puts, fn, cache_, now, last, lastPut, evicted, mutex_, seqCache>>

\* HttpClient::Get returns, after any time: the fetch ends on a failed
\* response, and calls cache.Put(url, body) otherwise
HttpReturn(t) ==
    /\ th[t].pc = "http"
    /\ \E net \in FetchNets :
          LET response == HttpGet(net)
          IN  th' = [th EXCEPT ![t] =
                        IF ResponseFailed(response)
                        THEN ThreadIdle
                        ELSE [ThreadIdle EXCEPT !.pc = "lock", !.op = "Put",
                                                !.key = th[t].key,
                                                !.body = response.body]]
    /\ UNCHANGED <<queryVars, puts, fn, cache_, now, last, lastPut, evicted, mutex_, seqCache>>

NextFetch ==
    \/ \E t \in Threads : Call(t)
    \/ \E t \in Threads : Lock(t)
    \/ \E t \in Threads : GetFind(t)
    \/ \E t \in Threads : GetCheck(t)
    \/ \E t \in Threads : PutStore(t)
    \/ \E t \in Threads : ClearAll(t)
    \/ \E t \in Threads : Unlock(t)
    \/ \E t \in Threads : HttpBegin(t)
    \/ \E t \in Threads : HttpReturn(t)

\* a thread inside a cache operation keeps running, and a thread that waits
\* for a mutex that stays free takes it.  std::mutex grants the lock in no
\* order: of the threads that wait when it is released any one may be the
\* next holder, and the thread that released it may take it again, so no
\* more than this weak fairness is assumed of the acquisition.  Nothing is
\* assumed of the time a transport call takes, nor of when a query calls the
\* cache.
SpecFetch ==
    /\ InitCache /\ [][NextFetch]_vars
    /\ \A t \in Threads :
          /\ WF_vars(Lock(t))
          /\ WF_vars(GetFind(t) \/ GetCheck(t) \/ PutStore(t) \/ ClearAll(t) \/ Unlock(t))

-----------------------------------------------------------------------------
(* The response bodies of the providers *)

WHORecord(country, year, num) ==
    JObj(<<M("IndicatorCode", JStr("WHOSIS_000001")), M("SpatialDim", JStr(country)),
           M("TimeDim", JInt(year)), M("Dim1", JStr("SEX_BTSX")),
           M("NumericValue", num), M("ParentLocation", JStr("Africa"))>>)
WHODoc(records) == JsonBody(JObj(<<M("value", JArr(records))>>))

WBRecord(country, date, value) ==
    JObj(<<M("indicator", JObj(<<M("id", JStr("SP.POP.TOTL")),
                                 M("value", JStr("Population, total"))>>)),
           M("country", JObj(<<M("id", JStr(country)), M("value", JStr("Sudan"))>>)),
           M("date", date), M("value", value)>>)
WBDoc(pages, records) ==
    JsonBody(JArr(<<JObj(<<M("page", JInt(1)), M("pages", pages)>>), JArr(records)>>))

UNHCRRecord(year, origin, asylum, counts) ==
    JObj(<<M("year", year)>> \o origin \o asylum \o counts)
UNHCRDoc(records) == JsonBody(JObj(<<M("items", JArr(records))>>))
ByIso(role, iso) == <<M(role \o "_iso", JStr(iso)), M(role \o "_name", JStr(iso))>>
ByCode(role, code) == <<M(role, JStr(code))>>

FAORecord(element, year, value) ==
    JObj(<<M("Area", JStr("Sudan")), M("Item", JStr("Wheat")), M("Element", element),
           M("Year", year), M("Value", value), M("Unit", JStr("t"))>>)
FAODoc(records) == JsonBody(JObj(<<M("data", JArr(records))>>))

\* an SDMX-JSON message: series dimensions REF_AREA, SEX; one observation
\* dimension TIME_PERIOD
ILODimensions ==
    JObj(<<M("series",
             JArr(<<JObj(<<M("id", JStr("REF_AREA")),
                           M("values", JArr(<<JObj(<<M("id", JStr("SDN"))>>)>>))>>),
                    JObj(<<M("id", JStr("SEX")),
                           M("values", JArr(<<JObj(<<M("id", JStr("SEX_T"))>>),
                                              JObj(<<M("name", JStr("Female"))>>)>>))>>)>>)),
           M("observation",
             JArr(<<JObj(<<M("id", JStr("TIME_PERIOD")),
                           M("values", JArr(<<JObj(<<M("id", JStr("2019"))>>),
                                              JObj(<<M("id", JStr("2020"))>>)>>))>>)>>))>>)
ILOSeries ==
    JObj(<<M("0:0", JObj(<<M("observations",
                             JObj(<<M("0", JArr(<<JReal(125)>>)),
                                    M("1", JArr(<<JNull>>))>>))>>)),
           M("0:1", JObj(<<M("observations",
                             JObj(<<M("1", JArr(<<JInt(7)>>))>>))>>))>>)
\* SDMX-JSON 2.0: data.dataSets, data.structures
ILODoc2 ==
    JsonBody(JObj(<<M("data",
                      JObj(<<M("dataSets", JArr(<<JObj(<<M("series", ILOSeries)>>)>>)),
                             M("structures",
                               JArr(<<JObj(<<M("dimensions", ILODimensions)>>)>>))>>))>>))
\* SDMX-JSON 1.0: dataSets and structure at the root
ILODoc1 ==
    JsonBody(JObj(<<M("dataSets", JArr(<<JObj(<<M("series", ILOSeries)>>)>>)),
                    M("structure", JObj(<<M("dimensions", ILODimensions)>>))>>))

-----------------------------------------------------------------------------
(* Queries of every provider *)

\* the positional arguments, among them the empty identifiers
QueryArgs(provider) ==
    CASE provider = "worldbank" -> {<<"SP.POP.TOTL">>, <<"">>}
      [] provider = "who" -> {<<"WHOSIS_000001">>, <<"">>}
      [] provider = "fao" -> {<<"QCL", "Production">>, <<"", "Production">>,
                              <<"QCL", "">>, <<"", "">>}
      [] provider = "unhcr" -> {<<"refugees">>, <<"">>}
      [] provider = "ilo" -> {<<"UNE_TUNE_SEX_AGE_NB">>, <<"">>}
      [] OTHER -> {<<"">>, <<"pop">>}

QueryCountries ==
    {ParamAbsent, ParamNull, ParamList(<<"SD", "EGY">>), ParamList(<<"XX", "SDN", "SD">>)}

HttpTimeouts == {TimeoutNotSet, TimeoutSet(30)}

\* what the network may answer to a request of each provider
GoodBody(provider) ==
    CASE provider = "worldbank" ->
           WBDoc(JInt(1), <<WBRecord("SD", JStr("2020"), JReal(15)),
                            WBRecord("SD", JStr("2019"), JNull)>>)
      [] provider = "who" ->
           WHODoc(<<WHORecord("SDN", 2020, JReal(15)), WHORecord("SDN", 2021, JNull)>>)
      [] provider = "fao" ->
           FAODoc(<<FAORecord(JStr("Production"), JInt(2020), JStr("12.5")),
                    FAORecord(JStr("Yield"), JInt(2020), JInt(3))>>)
      [] provider = "unhcr" ->
           UNHCRDoc(<<UNHCRRecord(JInt(2020), ByIso("coo", "SDN"), ByIso("coa", "EGY"),
                                  <<M("refugees", JInt(100))>>),
                      UNHCRRecord(JInt(2021), ByIso("coo", "SDN"), ByIso("coa", "TCD"),
                                  <<M("refugees", JInt(0))>>)>>)
      [] OTHER -> ILODoc2

QueryNets(provider) ==
    IF provider = "ilo"
    THEN {NetFail, NetAnswer(200, GarbageBody), NetAnswer(200, GoodBody(provider))}
    ELSE {NetFail, NetThrowLate(200), NetAnswer(404, GarbageBody),
          NetAnswer(200, EmptyBody), NetAnswer(200, GarbageBody),
          NetAnswer(200, GoodBody(provider))}

\* indicator lists: an element the search "pop" keeps by its name, one it
\* keeps by its id whose other members are no strings, one it drops
WBIndicatorsDoc(pages) ==
    JsonBody(JArr(<<JObj(<<M("pages", pages)>>),
                    JArr(<<JObj(<<M("id", JStr("SP.POP.TOTL")),
                                  M("name", JStr("Population, total")),
                                  M("source", JObj(<<M("value", JStr("WDI"))>>)),
                                  M("sourceNote", JStr("Total population"))>>),
                           JObj(<<M("id", JStr("SP.POP.GROW")), M("name", JInt(1)),
                                  M("source", JStr("WDI"))>>),
                           JObj(<<M("id", JStr("NY.GDP")), M("name", JStr("GDP"))>>)>>)>>))
WHOIndicatorsDoc ==
    JsonBody(JObj(<<M("value",
                      JArr(<<JObj(<<M("IndicatorCode", JStr("WHOSIS_000001")),
                                    M("IndicatorName", JStr("Population")),
                                    M("Language", JStr("EN"))>>),
                             JObj(<<M("IndicatorCode", JStr("POP_2")),
                                    M("IndicatorName", JNull)>>),
                             JObj(<<M("IndicatorCode", JStr("MDG_1")),
                                    M("IndicatorName", JStr("Mortality"))>>)>>))>>))

\* what the network may answer to the requests of the indicator lists and of
\* the search
WBIndicatorsNets ==
    {NetFail, NetAnswer(404, GarbageBody), NetAnswer(200, GarbageBody),
     NetAnswer(200, WBIndicatorsDoc(JInt(1))), NetAnswer(200, WBIndicatorsDoc(JInt(2)))}
WHOIndicatorsNets ==
    {NetFail, NetAnswer(404, GarbageBody), NetAnswer(200, GarbageBody),
     NetAnswer(200, WHOIndicatorsDoc)}
SearchNets ==
    {NetFail, NetAnswer(200, GarbageBody), NetAnswer(200, WBIndicatorsDoc(JInt(1))),
     NetAnswer(200, WHOIndicatorsDoc)}

\* the answers to the requests of each provider's query
WBQueryNets == QueryNets("worldbank")
WHOQueryNets == QueryNets("who")
FAOQueryNets == QueryNets("fao")
UNHCRQueryNets == QueryNets("unhcr")
ILOQueryNets == QueryNets("ilo")

NextQuery ==
    \/ \E provider \in Providers, param \in QueryCountries :
          \E args \in QueryArgs(provider) : Bind("e1", provider, args, param)
    \/ \E t \in HttpTimeouts : InitStart("e1", t)
    \/ HttpCall("e1")
    \/ WBGet("e1", JunkRows)
    \/ WBHttp("e1", WBQueryNets, JunkRows)
    \/ WHOGet("e1", JunkRows)
    \/ WHOHttp("e1", WHOQueryNets, JunkRows)
    \/ FAOGet("e1", JunkRows)
    \/ FAOHttp("e1", FAOQueryNets, JunkRows)
    \/ UNHCRGet("e1", JunkYears)
    \/ UNHCRHttp("e1", UNHCRQueryNets, JunkYears)
    \/ ILOGet("e1")
    \/ ILOHttp("e1", ILOQueryNets)
    \/ \E provider \in InfoFunctions :
          \E args \in QueryArgs(provider) : Bind("e1", provider, args, ParamAbsent)
    \/ WBIndicatorsGet("e1")
    \/ WBIndicatorsHttp("e1", WBIndicatorsNets)
    \/ WHOIndicatorsGet("e1")
    \/ WHOIndicatorsHttp("e1", WHOIndicatorsNets)
    \/ SearchHttp("e1", SearchNets)
    \/ Execute("e1")

SpecQuery == InitCache /\ [][NextQuery]_vars

-----------------------------------------------------------------------------
(* World Bank queries *)

\* the largest page count a response announces
MaxPages == 3

WBRowsA == <<WBRecord("SD", JStr("2020"), JReal(15)), WBRecord("SD", JStr("2019"), JNull)>>
WBRowsB == <<WBRecord("SD", JStr("2018"), JInt(3))>>

WBNets ==
    {NetFail, NetAnswer(200, GarbageBody), NetAnswer(500, WBDoc(JInt(1), WBRowsA)),
     \* pages is no integer; an array of one element; a date that is no string
     NetAnswer(200, WBDoc(JStr("2"), WBRowsB)),
     NetAnswer(200, JsonBody(JArr(<<JObj(<<M("pages", JInt(2))>>)>>))),
     NetAnswer(200, WBDoc(JInt(1), <<WBRecord("SD", JInt(2017), JReal(20))>>))}
    \cup {NetAnswer(200, WBDoc(JInt(n), records)) :
             n \in 1..MaxPages, records \in {WBRowsA, WBRowsB}}

WBCountries == {ParamAbsent, ParamList(<<"SDN", "SD">>)}

NextWB ==
    \/ \E param \in WBCountries : Bind("e1", "worldbank", <<"SP.POP.TOTL">>, param)
    \/ \E t \in HttpTimeouts : InitStart("e1", t)
    \/ HttpCall("e1")
    \/ WBGet("e1", JunkRows)
    \/ WBHttp("e1", WBNets, JunkRows)
    \/ Execute("e1")

SpecWB == InitCache /\ [][NextWB]_vars

\* the answers to the page requests: failures, bodies that end the loop, and
\* pages that announce any page count, which may change from page to page
WBPageNets ==
    {NetFail, NetAnswer(200, GarbageBody), NetAnswer(500, WBDoc(JInt(1), WBRowsB)),
     NetAnswer(200, WBDoc(JStr("2"), WBRowsB)),
     NetAnswer(200, JsonBody(JArr(<<JObj(<<M("pages", JInt(2))>>)>>)))}
    \cup {NetAnswer(200, WBDoc(JInt(n), WBRowsB)) : n \in 0..MaxPages}

\* a server that announces as many pages as an int holds, and no data
WBFullPages == NetAnswer(200, WBDoc(JInt(INT32_MAX), <<>>))
WBLongNets == WBPageNets \cup {WBFullPages}

\* the answers that end the loop
WBEndNets == {NetFail, NetAnswer(200, GarbageBody)}

\* the requests of a call the server answers as it likes; it ends the loop
\* with its answer to the next one
MaxTurns == 4

\* history: the turns the running call has taken
Turns(e) ==
    IF q[e].phase = "fetch" /\ q[e].ci \in 1..Len(q[e].log)
    THEN Len(q[e].log[q[e].ci].ev) ELSE 0

\* The loop at the head of its turn for page INT_MAX - 1: where it is after
\* the server has answered WBFullPages to the request of every page before.
\* The cache then holds these bodies under the URLs of the pages before,
\* which no later lookup asks for: they are left out, and the history starts
\* here.
LongQuery(provider, args) ==
    [QueryNew EXCEPT !.provider = provider, !.phase = "fetch", !.args = args,
                     !.countries = IF provider = "worldbank" THEN <<"SDN">>
                                   ELSE <<EmptyString>>,
                     !.timeout = 90, !.extracted = 90, !.ci = 1, !.pc = "get",
                     !.page = INT32_MAX - 1, !.total_pages = INT32_MAX,
                     !.ks = 1, !.role = 1, !.usedCache = TRUE,
                     !.log = <<[country |-> IF provider = "worldbank" THEN "SDN"
                                            ELSE EmptyString,
                                cold |-> TRUE, ev |-> <<>>]>>]
LongQueries ==
    {LongQuery("worldbank", <<"SP.POP.TOTL">>), LongQuery("wb_indicators", <<"">>)}

\* a query that has not started, or a page loop that has run for long
InitWBPages ==
    /\ cache_ = EmptyMap
    /\ now = 0
    /\ last = NoOp
    /\ lastPut = NoPut
    /\ evicted = {}
    /\ mutex_ = "free"
    /\ th = [t \in Threads |-> ThreadIdle]
    /\ seqCache = EmptyMap
    /\ \E first \in {QueryNew} \cup LongQueries :
          q = [t \in Threads |-> IF t = "e1" THEN first ELSE QueryNew]
    /\ calls = <<>>
    /\ puts = EmptyMap
    /\ fn = NoCall

WBHttpTurn(e) == Turns(e) < MaxTurns /\ WBHttp(e, WBLongNets, JunkRows)
WBHttpLast(e) == Turns(e) >= MaxTurns /\ WBHttp(e, WBEndNets, JunkRows)
WBIndicatorsHttpTurn(e) == Turns(e) < MaxTurns /\ WBIndicatorsHttp(e, WBLongNets)
WBIndicatorsHttpLast(e) == Turns(e) >= MaxTurns /\ WBIndicatorsHttp(e, WBEndNets)

NextWBPages ==
    \/ \E param \in WBCountries : Bind("e1", "worldbank", <<"SP.POP.TOTL">>, param)
    \/ InitStart("e1", TimeoutNotSet)
    \/ HttpCall("e1")
    \/ WBGet("e1", JunkRows)
    \/ WBHttpTurn("e1")
    \/ WBHttpLast("e1")
    \/ \E search \in {"", "pop"} : Bind("e1", "wb_indicators", <<search>>, ParamAbsent)
    \/ WBIndicatorsGet("e1")
    \/ WBIndicatorsHttpTurn("e1")
    \/ WBIndicatorsHttpLast("e1")

\* Init runs the fetch in its own thread, one statement after the other, and
\* every HttpClient::Get returns (with a response, or with an error when the
\* timeout passes): a turn of the page loop that can be taken is taken.  The
\* conditions on WBGet and WBIndicatorsGet are weak fairness written out,
\* each being enabled exactly at the head of its loop.
SpecWBFair ==
    /\ InitWBPages /\ [][NextWBPages]_vars
    /\ ([]<>(~AtStep("e1", "worldbank", "get")) \/ []<><<WBGet("e1", JunkRows)>>_vars)
    /\ ([]<>(~AtStep("e1", "wb_indicators", "get"))
          \/ []<><<WBIndicatorsGet("e1")>>_vars)
    /\ WF_vars(HttpCall("e1"))
    /\ WF_vars(WBHttpTurn("e1")) /\ WF_vars(WBHttpLast("e1"))
    /\ WF_vars(WBIndicatorsHttpTurn("e1")) /\ WF_vars(WBIndicatorsHttpLast("e1"))

-----------------------------------------------------------------------------
(* UNHCR queries *)

\* the counts of the requested population type the records carry
UNHCRCounts ==
    {<<M("refugees", JInt(100))>>, <<M("refugees", JInt(0))>>,
     <<M("idps", JInt(5))>>,
     <<M("refugees", JInt64(1, 0))>>,
     <<M("refugees", JReal(30))>>, <<M("refugees", JReal(5))>>,
     <<M("refugees", JStr("12"))>>}

UNHCRNets ==
    {NetFail, NetAnswer(200, GarbageBody),
     NetAnswer(200, UNHCRDoc(<<UNHCRRecord(JStr("2020"), ByCode("coo", "SUD"),
                                           ByCode("coa", "ARE"),
                                           <<M("refugees", JInt(7))>>)>>)),
     \* people displaced within the country: it is both origin and asylum
     NetAnswer(200, UNHCRDoc(<<UNHCRRecord(JInt(2022), ByIso("coo", "SDN"),
                                           ByIso("coa", "SDN"),
                                           <<M("idps", JInt(5))>>)>>))}
    \cup {NetAnswer(200, UNHCRDoc(<<UNHCRRecord(JInt(2020), ByIso("coo", "SDN"),
                                                ByIso("coa", "EGY"), counts),
                                    UNHCRRecord(JInt(2021), ByIso("coo", "SDN"),
                                                ByIso("coa", "TCD"),
                                                <<M("refugees", JInt(40))>>)>>)) :
             counts \in UNHCRCounts}

UNHCRCountries == {ParamAbsent, ParamList(<<"SS">>)}

NextUNHCR ==
    \/ \E args \in {<<"refugees">>, <<"REF">>, <<"idps">>}, param \in UNHCRCountries :
          Bind("e1", "unhcr", args, param)
    \/ \E t \in HttpTimeouts : InitStart("e1", t)
    \/ HttpCall("e1")
    \/ UNHCRGet("e1", JunkYears)
    \/ UNHCRHttp("e1", UNHCRNets, JunkYears)
    \/ Execute("e1")

SpecUNHCR == InitCache /\ [][NextUNHCR]_vars

-----------------------------------------------------------------------------
(* ILO queries *)

ILONets ==
    {NetFail, NetThrow, NetThrowLate(200), NetAnswer(404, ILODoc2),
     NetAnswer(200, EmptyBody),
     NetAnswer(200, GarbageBody), NetAnswer(200, ILODoc1), NetAnswer(200, ILODoc2)}

ILOCountries == {ParamAbsent, ParamList(<<"EG">>)}

NextILO ==
    \/ \E args \in {<<"UNE_TUNE_SEX_AGE_NB">>, <<"DF_UNE_TUNE_SEX_AGE_NB">>},
          param \in ILOCountries :
          Bind("e1", "ilo", args, param)
    \/ \E t \in HttpTimeouts : InitStart("e1", t)
    \/ HttpCall("e1")
    \/ ILOGet("e1")
    \/ ILOHttp("e1", ILONets)
    \/ Execute("e1")

SpecILO == InitCache /\ [][NextILO]_vars

-----------------------------------------------------------------------------
(* World Bank, WHO and FAO queries over the values a record may carry *)

\* what the value member of a record may be; JAbsent: the record has no such
\* member (yyjson_obj_get gives NULL)
RecordValues ==
    {JAbsent, JNull, JReal(15), JReal(0), JInt(3), JInt(0), JInt64(1, 0),
     JStr("12.5"), JStr("n/a"), JStr("")}

ValueProviders == {"worldbank", "who", "fao"}

\* the responses with two records, the first carrying value
ValueDoc(provider, value) ==
    CASE provider = "worldbank" ->
           WBDoc(JInt(1), <<WBRecord("SD", JStr("2020"), value),
                            WBRecord("SD", JStr("2019"), JReal(20))>>)
      [] provider = "who" ->
           WHODoc(<<WHORecord("SDN", 2020, value), WHORecord("SDN", 2021, JReal(20))>>)
      [] OTHER ->
           FAODoc(<<FAORecord(JStr("Production"), JInt(2020), value),
                    FAORecord(JStr("production quantity"), JStr("2019"), JReal(20))>>)

ValueNets(provider) ==
    {NetFail, NetAnswer(200, GarbageBody)}
    \cup {NetAnswer(200, ValueDoc(provider, value)) : value \in RecordValues}

ValueCountries == {ParamAbsent, ParamList(<<"SD", "SDN">>)}

\* the answers to the requests of each provider's query
WBValueNets == ValueNets("worldbank")
WHOValueNets == ValueNets("who")
FAOValueNets == ValueNets("fao")

NextValues ==
    \/ \E provider \in ValueProviders, param \in ValueCountries :
          \E args \in {a \in QueryArgs(provider) : \A i \in 1..Len(a) : a[i] # ""} :
              Bind("e1", provider, args, param)
    \/ \E t \in HttpTimeouts : InitStart("e1", t)
    \/ HttpCall("e1")
    \/ WBGet("e1", JunkRows)
    \/ WBHttp("e1", WBValueNets, JunkRows)
    \/ WHOGet("e1", JunkRows)
    \/ WHOHttp("e1", WHOValueNets, JunkRows)
    \/ FAOGet("e1", JunkRows)
    \/ FAOHttp("e1", FAOValueNets, JunkRows)
    \/ Execute("e1")

SpecValues == InitCache /\ [][NextValues]_vars

-----------------------------------------------------------------------------
(* FAO queries *)

\* what the Element and the Value member of a record may be; JAbsent: the
\* record has no such member
FAOElements ==
    {JStr("Production"), JStr("PRODUCTION quantity"), JStr("Yield"), JAbsent, JNull}
FAOValues ==
    {JAbsent, JNull, JReal(15), JInt(3), JInt64(1, 0),
     JStr("12.5"), JStr("-3"), JStr("0x10"), JStr("1e999"), JStr("n/a"), JStr("")}

FAONets ==
    {NetFail, NetAnswer(200, GarbageBody)}
    \cup {NetAnswer(200, FAODoc(<<FAORecord(element, JInt(2020), value),
                                  FAORecord(JStr("Production"), JStr("2019"),
                                            JReal(20))>>)) :
             element \in FAOElements, value \in FAOValues}

FAOCountries == {ParamAbsent, ParamList(<<"SD", "SDN">>)}

NextFAO ==
    \/ \E args \in {<<"QCL", "production">>, <<"QCL", "Yield">>},
          param \in FAOCountries :
          Bind("e1", "fao", args, param)
    \/ \E t \in HttpTimeouts : InitStart("e1", t)
    \/ HttpCall("e1")
    \/ FAOGet("e1", JunkRows)
    \/ FAOHttp("e1", FAONets, JunkRows)
    \/ Execute("e1")

SpecFAO == InitCache /\ [][NextFAO]_vars

-----------------------------------------------------------------------------
(* Calls of the pure functions: the year filter encoders, NormalizeCountryCode *)

\* the year bounds of a filter: -1 (none, the default), 0, or a year
FilterYears == {-1, 0, 1, 2010, 2023, 2100}
FilterInputs ==
    [has_year_filter : BOOLEAN, year_start : FilterYears, year_end : FilterYears]

\* the codes NormalizeCountryCode is called with: the supported codes, the
\* same in lower case, and other strings
CodeInputs ==
    {SUPPORTED_COUNTRIES[i].iso3 : i \in 1..Len(SUPPORTED_COUNTRIES)}
    \cup {SUPPORTED_COUNTRIES[i].iso2 : i \in 1..Len(SUPPORTED_COUNTRIES)}
    \cup {Lower(SUPPORTED_COUNTRIES[i].iso3) : i \in 1..Len(SUPPORTED_COUNTRIES)}
    \cup {Lower(SUPPORTED_COUNTRIES[i].iso2) : i \in 1..Len(SUPPORTED_COUNTRIES)}
    \cup {"", "XX", "USA", "SDNX", " SD", "Sd", "S"}

Encoders == {"worldbank", "who", "fao", "unhcr", "ilo"}

EncodeYearFilterOf(api, filter) ==
    CASE api = "worldbank" -> EncodeWorldBankYearFilter(filter)
      [] api = "who" -> EncodeWHOYearFilter(filter)
      [] api = "fao" -> EncodeFAOYearFilter(filter)
      [] api = "unhcr" -> EncodeUNHCRYearFilter(filter)
      [] OTHER -> EncodeILOYearFilter(filter)

InitPure ==
    /\ cache_ = EmptyMap /\ now = 0 /\ last = NoOp /\ lastPut = NoPut
    /\ evicted = {} /\ mutex_ = "free" /\ th = [t \in Threads |-> ThreadIdle]
    /\ seqCache = EmptyMap /\ q = [t \in Threads |-> QueryNew] /\ calls = <<>>
    /\ puts = EmptyMap
    /\ \/ \E filter \in FilterInputs : fn = [NoCall EXCEPT !.filter = filter]
       \/ \E code \in CodeInputs : fn = [NoCall EXCEPT !.code = code, !.arg = "code"]

\* one of the five encoders is called with the filter
EncodeYearFilter(api) ==
    /\ fn.arg = "filter" /\ fn.n = 0
    /\ fn' = [fn EXCEPT !.f = api, !.out = EncodeYearFilterOf(api, fn.filter), !.n = 1]
    /\ UNCHANGED <<queryVars, puts, cache_, now, last, lastPut, evicted, mutex_, th,
                   seqCache>>

\* NormalizeCountryCode is called with the code, then with what it returned
Normalize ==
    /\ fn.arg = "code" /\ fn.n < 2
    /\ LET code == IF fn.n = 0 THEN fn.code ELSE fn.out
       IN  fn' = [fn EXCEPT !.f = "NormalizeCountryCode", !.prev = code,
                            !.out = NormalizeCountryCode(code), !.n = @ + 1]
    /\ UNCHANGED <<queryVars, puts, cache_, now, last, lastPut, evicted, mutex_, th,
                   seqCache>>

NextPure ==
    \/ \E api \in Encoders : EncodeYearFilter(api)
    \/ Normalize

SpecPure == InitPure /\ [][NextPure]_vars

-----------------------------------------------------------------------------
(* Two query executions that share the cache *)

SharedProviders == {"worldbank", "who", "fao", "unhcr"}

SharedNets(provider) ==
    {NetFail, NetAnswer(200, EmptyBody), NetAnswer(200, GoodBody(provider))}

SharedCountries == {ParamAbsent, ParamList(<<"SD">>)}

\* the answers to the requests of each provider's query
WBSharedNets == SharedNets("worldbank")
WHOSharedNets == SharedNets("who")
FAOSharedNets == SharedNets("fao")
UNHCRSharedNets == SharedNets("unhcr")

NextShared ==
    \E e \in Threads :
        \/ \E provider \in SharedProviders, param \in SharedCountries :
              \E args \in {a \in QueryArgs(provider) : \A i \in 1..Len(a) : a[i] # ""} :
                  Bind(e, provider, args, param)
        \/ InitStart(e, TimeoutNotSet)
        \/ HttpCall(e)
        \/ WBGet(e, JunkRows)
        \/ WBHttp(e, WBSharedNets, JunkRows)
        \/ WHOGet(e, JunkRows)
        \/ WHOHttp(e, WHOSharedNets, JunkRows)
        \/ FAOGet(e, JunkRows)
        \/ FAOHttp(e, FAOSharedNets, JunkRows)
        \/ UNHCRGet(e, JunkYears)
        \/ UNHCRHttp(e, UNHCRSharedNets, JunkYears)

SpecShared == InitCache /\ [][NextShared]_vars

-----------------------------------------------------------------------------
(* ILO queries over the keys of series and observations *)

\* series dimensions REF_AREA, SEX, AGE; observation dimension TIME_PERIOD
ILOKeyDimensions ==
    JObj(<<M("series",
             JArr(<<JObj(<<M("id", JStr("REF_AREA")),
                           M("values", JArr(<<JObj(<<M("id", JStr("SDN"))>>)>>))>>),
                    JObj(<<M("id", JStr("SEX")),
                           M("values", JArr(<<JObj(<<M("id", JStr("SEX_T"))>>),
                                              JObj(<<M("id", JStr("SEX_F"))>>)>>))>>),
                    JObj(<<M("id", JStr("AGE")),
                           M("values", JArr(<<JObj(<<M("id", JStr("AGE_15-24"))>>),
                                              JObj(<<M("id", JStr("AGE_25+"))>>)>>))>>)>>)),
           M("observation",
             JArr(<<JObj(<<M("id", JStr("TIME_PERIOD")),
                           M("values", JArr(<<JObj(<<M("id", JStr("2019"))>>),
                                              JObj(<<M("id", JStr("2020"))>>)>>))>>)>>))>>)

\* a message with one series of one observation, under the given keys
ILOKeyDoc(series_key, obs_key) ==
    JsonBody(JObj(<<M("data",
                      JObj(<<M("dataSets",
                               JArr(<<JObj(<<M("series",
                                   JObj(<<M(series_key,
                                            JObj(<<M("observations",
                                                JObj(<<M(obs_key,
                                                         JArr(<<JReal(125)>>))>>))>>))>>))>>)>>)),
                             M("structures",
                               JArr(<<JObj(<<M("dimensions", ILOKeyDimensions)>>)>>))>>))>>))

\* well-formed keys, the empty key, keys with segments that are no numbers,
\* with too few or too many segments, with indices past the value lists,
\* with negative numerals (which std::stoul negates modulo 2^64)
SeriesKeys == {"0:1:0", "0:0:1", "", "0", "0:1", "0:1:1:0", "0:x:1", "x", "0:2:0",
               "0:1:7", "0::0", "0:-1:0", "0:-18446744073709551615:1"}
ObsKeys == {"0", "1", "", "x", "2", "1:0", "-1"}

ILOKeyNets ==
    {NetFail} \cup {NetAnswer(200, ILOKeyDoc(sk, ok)) : sk \in SeriesKeys, ok \in ObsKeys}

NextILOKeys ==
    \/ \E param \in ILOCountries : Bind("e1", "ilo", <<"UNE_TUNE_SEX_AGE_NB">>, param)
    \/ InitStart("e1", TimeoutNotSet)
    \/ HttpCall("e1")
    \/ ILOGet("e1")
    \/ ILOHttp("e1", ILOKeyNets)
    \/ Execute("e1")

SpecILOKeys == InitCache /\ [][NextILOKeys]_vars

-----------------------------------------------------------------------------
(* Claims about the cache, sequential use *)

TTLTicks == CACHE_TTL_SECONDS * TicksPerSecond

\* C1: a Get(K) that immediately follows Put(K, B), with no more than the TTL
\* elapsed in between, returns B.
C1_PutThenGet ==
    (/\ last.op = "Get"
     /\ last.afterPut.valid
     /\ last.afterPut.key = last.key
     /\ last.time - last.afterPut.time <= TTLTicks)
    => last.ret = last.afterPut.body

C1_Witness ==
    /\ last.op = "Get"
    /\ last.afterPut.valid
    /\ last.afterPut.key = last.key
    /\ ~BodyEmpty(last.afterPut.body)
    /\ last.time - last.afterPut.time = TTLTicks
    /\ last.ret = last.afterPut.body

\* C2: a Get never returns the body of an entry whose age, measured in clock
\* ticks, is more than the TTL of 300 seconds.
C2_NeverReturnsOlderThanTTL ==
    (last.op = "Get" /\ last.present /\ last.age > TTLTicks)
    => BodyEmpty(last.ret)

\* C3: a Get that finds an expired entry returns absent and erases the entry;
\* until the next Put of that key the map holds no entry for it and every
\* Get of it returns absent.
C3_EvictionLasts ==
    /\ (last.op = "Get" /\ last.stale)
          => (BodyEmpty(last.ret) /\ last.key \notin DOMAIN cache_)
    /\ \A url \in evicted : url \notin DOMAIN cache_
    /\ (last.op = "Get" /\ last.wasEvicted) => BodyEmpty(last.ret)

C3_Witness ==
    /\ last.op = "Get"
    /\ last.wasEvicted
    /\ ~last.present
    /\ last.key \in evicted
    /\ DOMAIN cache_ # {}

\* the body of the most recent Put(url) not followed by a Clear, absent (the
\* empty string) when there is none
LatestPut(url) == IF url \in DOMAIN puts THEN puts[url].body ELSE EmptyBody

\* the most recent Put(url) not followed by a Clear, if any, has not expired
\* at the time clock
NotExpiredAt(url, clock) ==
    url \in DOMAIN puts =>
        DurationCastSeconds(clock - puts[url].time) <= CACHE_TTL_SECONDS

\* what Get(url) would return now
WouldGet(url) == CacheGet(cache_, url, now).ret

\* a Put or a Get leaves what Get returns for every other key as it was
OtherKeysKept ==
    (last' # last /\ last'.op \in {"Put", "Get"}) =>
        \A url \in CacheKeys \ {last'.key} :
            CacheGet(cache_', url, now').ret = CacheGet(cache_, url, now).ret

\* C16: over any sequence of Put, Get and Clear in which no entry expires, the
\* cache behaves as a map: Get(K) returns the body of the most recent Put(K)
\* not followed by a Clear, and absent when there is none; Put(K) and Get(K)
\* never change what Get returns for another key; Clear makes every key absent.
C16_CacheIsAMap ==
    /\ [](/\ \A url \in CacheKeys : NotExpiredAt(url, now) => WouldGet(url) = LatestPut(url)
          /\ (last.op = "Get" /\ NotExpiredAt(last.key, last.time)) =>
                last.ret = LatestPut(last.key)
          /\ (last.op = "Clear") =>
                \A url \in CacheKeys : WouldGet(url) = EmptyBody)
    /\ [][OtherKeysKept]_vars

C16_Witness ==
    /\ last.op = "Get"
    /\ Cardinality(DOMAIN puts) = 2
    /\ last.ret = puts[last.key].body /\ ~BodyEmpty(last.ret)
    /\ \E url \in DOMAIN puts : puts[url].body # last.ret /\ ~BodyEmpty(puts[url].body)
    /\ puts[last.key].time > 0

-----------------------------------------------------------------------------
(* Claims about the cache, concurrent use *)

\* C4: at most one thread is inside Get, Put or Clear at a time, and it holds
\* the mutex; the map and every returned string are those of the operations
\* run one after the other, in the order in which they took the mutex.
C4_MutualExclusion ==
    /\ Cardinality({t \in Threads : th[t].pc \in InCritical}) <= 1
    /\ \A t \in Threads : th[t].pc \in InCritical => mutex_ = t
    /\ cache_ = seqCache
    /\ \A t \in Threads : th[t].pc = "unlock" => th[t].ret = th[t].expected

C4_Witness ==
    /\ th["e1"].pc = "unlock"
    /\ th["e1"].op = "Get"
    /\ ~BodyEmpty(th["e1"].ret)
    /\ th["e2"].pc = "lock"
    /\ th["e2"].op = "Clear"

-----------------------------------------------------------------------------
(* Claims about the queries *)

\* the required identifier of the query is the empty string
HasEmptyIdentifier(qr) ==
    qr.args[1] = "" \/ (qr.provider = "fao" /\ qr.args[2] = "")

\* the rows of qr in output form
OutRows(qr) == [i \in 1..Len(qr.rows) |-> OutRow(qr.provider, qr.rows[i])]

\* C5: for each of the five providers, a query whose required identifier is
\* the empty string (for FAO the dataset or the element) fails at Bind; for
\* that query the cache is never called, the transport is never called, no
\* row is buffered or output, and it never completes.
C5_EmptyIdentifierFailsAtBind ==
    \A e \in Threads :
        (q[e].provider \in Providers /\ HasEmptyIdentifier(q[e])) =>
            /\ q[e].phase = "error"
            /\ ~q[e].usedCache
            /\ \A i \in 1..Len(calls) : calls[i].e # e
            /\ q[e].log = <<>> /\ q[e].rows = <<>>
            /\ q[e].emitted = <<>> /\ q[e].before = -1

C5_Witness ==
    /\ q["e1"].provider = "fao"
    /\ q["e1"].args = <<"QCL", "">>
    /\ q["e1"].phase = "error"

\* the fetch of a log entry met a transport error, a status other than 200,
\* or a body that is no JSON document
MetFailure(entry) ==
    \E k \in 1..Len(entry.ev) :
        \/ entry.ev[k].response.error # ""
        \/ entry.ev[k].response.status_code # 200
        \/ YyjsonRead(entry.ev[k].response.body) = JAbsent

\* what an unassigned member of row number r may hold: a value drawn for it
\* or what the row before it left there
MayHold(rows, r, member) ==
    (IF member = "value" THEN JunkDouble ELSE Junk)
        \cup (IF r > 1 THEN {rows[r - 1][member]} ELSE {})

\* the rows a response yields for a provider, whatever happened to the
\* other countries
Decoded(qr, country, response, junk) ==
    CASE qr.provider = "ilo" ->
           IF response.status_code = 200 /\ response.error = ""
              /\ ~BodyEmpty(response.body)
           THEN ILOParse(response.body, qr.args[1], country) ELSE <<>>
      [] response.status_code # 200 \/ response.error # "" -> <<>>
      [] qr.provider = "who" -> WHOParse(response.body, qr.args[1], country, junk)
      [] qr.provider = "worldbank" -> WorldBankPage(response.body, 1, junk).rows
      [] qr.provider = "fao" -> FAOParse(response.body, qr.args[1], qr.args[2], junk)
      [] OTHER -> UNHCRParse(response.body, GetUNHCRFieldName(qr.args[1]), junk)

\* the rows of all the fetches of a query, in the order of the fetches
LoggedRows(qr) ==
    Flatten([i \in 1..Len(qr.log) |->
                Flatten([k \in 1..Len(qr.log[i].ev) |-> qr.log[i].ev[k].rows])])

\* C6: when the fetch for one country of a query meets a transport error, a
\* non-200 status or a malformed JSON body, no error is raised; every country
\* of the list is still fetched, each fetch gives the rows its own responses
\* yield, and all these rows are returned.
C6_FailureIsNotFatal ==
    \A e \in Threads :
        LET qr == q[e]
        IN  (qr.provider \in Providers) =>
            /\ (qr.phase = "error") => HasEmptyIdentifier(qr)
            /\ (qr.phase = "ready") =>
                  /\ Len(qr.log) = Len(qr.countries)
                  /\ \A i \in 1..Len(qr.log) :
                        /\ qr.log[i].country = qr.countries[i]
                        /\ qr.log[i].ev # <<>>
                        /\ \A k \in 1..Len(qr.log[i].ev) :
                              \E junk \in JunkRows :
                                  qr.log[i].ev[k].rows =
                                      Decoded(qr, qr.countries[i],
                                              qr.log[i].ev[k].response, junk)
                  /\ qr.rows = LoggedRows(qr)
            /\ (qr.phase = "ready" /\ qr.idle > 0) => qr.emitted = OutRows(qr)

C6_Witness ==
    LET qr == q["e1"]
    IN  /\ qr.phase = "ready" /\ qr.idle > 0
        /\ Len(qr.countries) >= 3
        /\ qr.log[1].ev[1].response.error # ""
        /\ MetFailure(qr.log[2])
        /\ ~MetFailure(qr.log[3])
        /\ qr.rows # <<>>
        /\ qr.emitted = OutRows(qr)

\* the smaller of two numbers
Smaller(a, b) == IF a < b THEN a ELSE b

\* C10: every Execute call returns min(batch size, rows not yet returned)
\* rows, the ones at the cursor in buffer order, and advances the cursor by
\* that number, so that the rows returned so far are the rows at positions
\* 0..cursor-1, each once; when all have been returned a call returns none.
C10_RowCursor ==
    \A e \in Threads :
        LET qr == q[e]
        IN  (qr.before >= 0) =>
              /\ Len(qr.out) = Smaller(STANDARD_VECTOR_SIZE, Len(qr.rows) - qr.before)
              /\ qr.current_row = qr.before + Len(qr.out)
              /\ qr.out = [i \in 1..Len(qr.out) |->
                              OutRow(qr.provider, qr.rows[qr.before + i])]
              /\ qr.emitted = SubSeq(OutRows(qr), 1, qr.current_row)
              /\ (qr.before = Len(qr.rows)) => (qr.out = <<>>)
              /\ (qr.idle > 0) => (qr.current_row = Len(qr.rows))

C10_Witness ==
    LET qr == q["e1"]
    IN  /\ Len(qr.rows) > STANDARD_VECTOR_SIZE
        /\ Len(qr.rows) % STANDARD_VECTOR_SIZE # 0
        /\ qr.current_row = Len(qr.rows)
        /\ qr.idle >= 2
        /\ qr.out = <<>>

-----------------------------------------------------------------------------
(* Claims about the fetchers *)

\* the fetch of log entry i of qr is over
FetchDone(qr, i) == i < qr.ci

\* k dots
RECURSIVE Dots(_)
Dots(k) == IF k = 0 THEN "" ELSE "." \o Dots(k - 1)

\* a response with status 200, no error and a non-empty body
ProbeAccepted(response) ==
    response.status_code = 200 /\ response.error = "" /\ response.body.text # "empty"

\* C7: with no cached body for its URLs, the ILO fetcher requests the
\* candidates with 1, 2, ..., up to 5 dots in this order; it requests none
\* after one that returned status 200, no error and a non-empty body, stops
\* before the fifth only at such a one, and decodes that one; when only the
\* 3-dot candidate is such a one, the requests are the 1-, 2- and 3-dot ones.
C7_SuffixProbing ==
    \A e \in Threads :
        \A i \in 1..Len(q[e].log) :
            LET qr == q[e]
                ev == qr.log[i].ev
                n == Len(ev)
            IN  (qr.provider = "ilo" /\ qr.log[i].cold) =>
                  /\ n <= 5
                  /\ \A k \in 1..n :
                        /\ ~ev[k].hit
                        /\ ev[k].url = ILOUrl(qr.args[1], qr.countries[i], Dots(k))
                        /\ k < n => ~ProbeAccepted(ev[k].response)
                        /\ k < n => ev[k].rows = <<>>
                  /\ (n >= 3 /\ ProbeAccepted(ev[3].response)) => n = 3
                  /\ FetchDone(qr, i) =>
                        /\ n >= 1
                        /\ n < 5 => ProbeAccepted(ev[n].response)
                        /\ ProbeAccepted(ev[n].response) =>
                              ev[n].rows = ILOParse(ev[n].response.body, qr.args[1],
                                                    qr.countries[i])
                        /\ ~ProbeAccepted(ev[n].response) => ev[n].rows = <<>>

C7_Witness ==
    LET qr == q["e1"]
    IN  /\ qr.provider = "ilo" /\ qr.phase = "ready"
        /\ qr.log[1].cold
        /\ Len(qr.log[1].ev) = 3
        /\ qr.log[1].ev[1].response.error # ""
        /\ qr.log[1].ev[2].response.status_code = 200
        /\ ProbeAccepted(qr.log[1].ev[3].response)
        /\ Len(qr.rows) = 2
        /\ Len(calls) = 3

\* a 200 response with no error whose body is a [metadata, data] array with
\* metadata.pages = N
ValidPage(response, N) ==
    LET root == YyjsonRead(response.body)
    IN  /\ response.status_code = 200 /\ response.error = ""
        /\ IsArr(root) /\ Len(root.v) >= 2
        /\ IsObj(root.v[1]) /\ ObjGet(root.v[1], "pages") = JInt(N)
        /\ IsArr(root.v[2])

\* the records of the data array of a page
PageRecords(response) == YyjsonRead(response.body).v[2].v

\* C8: with no cached body for its URLs, when every page response of a World
\* Bank fetch for one country is a valid [metadata, data] array with
\* metadata.pages = N, N >= 1, the requests of the fetch are those for the
\* pages 1, 2, ..., N in this order, exactly N of them, and the rows appended
\* are those of page 1, then of page 2, ..., then of page N.
C8_Pagination ==
    \A e \in Threads :
        \A i \in 1..Len(q[e].log) :
            \A N \in 1..MaxPages :
                LET qr == q[e]
                    ev == qr.log[i].ev
                IN  (/\ qr.provider = "worldbank" /\ qr.log[i].cold
                     /\ \A k \in 1..Len(ev) : ValidPage(ev[k].response, N)) =>
                      /\ Len(ev) <= N
                      /\ FetchDone(qr, i) => Len(ev) = N
                      /\ \A k \in 1..Len(ev) :
                            /\ ~ev[k].hit
                            /\ ev[k].url = WorldBankUrl(qr.args[1], qr.countries[i],
                                                        k, FilterResult)
                            /\ Len(ev[k].rows) = Len(PageRecords(ev[k].response))
                            /\ \A r \in 1..Len(ev[k].rows) :
                                  \E junk \in MayHold(ev[k].rows, r, "year") :
                                      ev[k].rows[r] =
                                          WorldBankRow(PageRecords(ev[k].response)[r], junk)
                      /\ qr.rows = LoggedRows(qr)

C8_Witness ==
    LET qr == q["e1"]
        ev == qr.log[1].ev
    IN  /\ qr.provider = "worldbank" /\ qr.phase = "ready"
        /\ Len(qr.countries) = 1 /\ qr.log[1].cold
        /\ Len(ev) = 2
        /\ ValidPage(ev[1].response, 2) /\ ValidPage(ev[2].response, 2)
        /\ ev[1].url = WorldBankUrl(qr.args[1], qr.countries[1], 1, FilterResult)
        /\ ev[2].url = WorldBankUrl(qr.args[1], qr.countries[1], 2, FilterResult)
        /\ Len(ev[1].rows) = 2 /\ Len(ev[2].rows) = 1
        /\ qr.rows = ev[1].rows \o ev[2].rows
        /\ Len(calls) = 2

\* the value of the requested field of a record is a number other than 0
NonZeroCount(val) ==
    \/ IsInt(val) /\ (val.hi # 0 \/ val.v # 0)
    \/ IsReal(val) /\ val.v # 0

\* a real number with no fraction
WholeNumber(val) == val.v % 10 = 0

\* the row carries the number val
Carries(row, val) ==
    \/ IsInt(val) /\ val.hi = 0 /\ row.value = Widen(val.v)
    \/ IsReal(val) /\ val.v % 10 = 0 /\ row.value = Widen(val.v \div 10)

\* C9: of the records of a UNHCR response, for the origin role as for the
\* asylum role, those whose value for the requested population type is 0 or
\* absent give no row, and each one whose value is a number other than 0
\* gives exactly one row, which carries that value.  (Stated for responses
\* whose values are whole numbers, or absent.)
C9_UNHCRDecoding ==
    \A e \in Threads :
        \A i \in 1..Len(q[e].log) :
            \A k \in 1..Len(q[e].log[i].ev) :
                LET qr == q[e]
                    ev == qr.log[i].ev[k]
                    field_name == GetUNHCRFieldName(qr.args[1])
                    items == ObjGet(YyjsonRead(ev.response.body), "items")
                    counts == [r \in 1..ArrSize(items) |->
                                  ObjGet(ArrGet(items, r - 1), field_name)]
                    numbers == SelectSeq(counts, NonZeroCount)
                IN  (/\ qr.provider = "unhcr"
                     /\ ev.response.status_code = 200 /\ ev.response.error = ""
                     /\ IsArr(items)
                     /\ \A r \in 1..Len(counts) :
                           \/ IsInt(counts[r]) \/ counts[r] = JAbsent
                           \/ (IsReal(counts[r]) /\ WholeNumber(counts[r]))) =>
                      /\ Len(ev.rows) = Len(numbers)
                      /\ \A r \in 1..Len(ev.rows) : Carries(ev.rows[r], numbers[r])

-----------------------------------------------------------------------------
(* Claims about the values of the rows *)

\* the array of records of a parsed response body, JAbsent when it has none
RecordsOf(provider, body) ==
    LET root == YyjsonRead(body)
    IN  CASE provider = "worldbank" ->
               IF IsArr(root) /\ ArrSize(root) >= 2 THEN ArrGet(root, 1) ELSE JAbsent
          [] provider = "who" -> ObjGet(root, "value")
          [] OTHER -> ObjGet(root, "data")

\* the member of a record that holds its numeric value
ValueOf(provider, record) ==
    CASE provider = "worldbank" -> ObjGet(record, "value")
      [] provider = "who" -> ObjGet(record, "NumericValue")
      [] OTHER -> ObjGet(record, "Value")

\* s is a decimal numeral: digits, with an optional sign and fraction
IsNumeral(s) ==
    LET body == IF Len(s) > 0 /\ CharAt(s, 1) \in {"-", "+"}
                THEN SubSeq(s, 2, Len(s)) ELSE s
        dots == {i \in 1..Len(body) : CharAt(body, i) = "."}
    IN  /\ \E i \in 1..Len(body) : IsDigit(CharAt(body, i))
        /\ \A i \in 1..Len(body) : IsDigit(CharAt(body, i)) \/ i \in dots
        /\ Cardinality(dots) <= 1

\* the record's value is a number: a JSON number, for FAO also a string that
\* is a numeral
IsNumber(provider, val) ==
    \/ IsReal(val) \/ IsInt(val)
    \/ (provider = "fao" /\ IsStr(val) /\ IsNumeral(GetStr(val)))

\* the output value v (in tenths) is the number val
IsTheNumber(v, val) ==
    \/ IsReal(val) /\ v = val.v
    \/ IsInt(val) /\ val.hi = 0 /\ v = val.v * 10
    \/ IsStr(val) /\ IsNumeral(GetStr(val)) /\ v = StoD(GetStr(val)).val

\* the records of a FAO response whose Element matches the requested one;
\* all the records for the other providers
Yielding(qr, records) ==
    LET Matches(record) == ~FAOSkips(record, qr.args[2])
    IN  IF qr.provider = "fao" THEN SelectSeq(records, Matches) ELSE records

\* C11: for World Bank, WHO and FAO, every record of a successfully parsed
\* response yields an output row whose value column is NULL exactly when the
\* record's numeric value is absent or not a number, and is the number the
\* record carries otherwise; a missing value is never output as 0.
C11_NullExactlyWhenNoValue ==
    \A e \in Threads :
        \A i \in 1..Len(q[e].log) :
            \A k \in 1..Len(q[e].log[i].ev) :
                LET qr == q[e]
                    ev == qr.log[i].ev[k]
                    arr == RecordsOf(qr.provider, ev.response.body)
                    records == Yielding(qr, arr.v)
                IN  (/\ qr.provider \in ValueProviders
                     /\ ev.response.status_code = 200 /\ ev.response.error = ""
                     /\ IsArr(arr)) =>
                      /\ Len(ev.rows) = Len(records)
                      /\ \A r \in 1..Len(records) :
                            LET val == ValueOf(qr.provider, records[r])
                                out == OutRow(qr.provider, ev.rows[r]).value
                            IN  /\ out.null <=> ~IsNumber(qr.provider, val)
                                /\ ~out.null => IsTheNumber(out.v, val)
                      /\ (qr.phase = "ready" /\ qr.idle > 0) =>
                            qr.emitted = OutRows(qr)

\* C12: FAO value coercion.  A record that lacks Value gives has_value =
\* false; a record whose Value is a number, or a string that is a number
\* (such as "12.5"), gives has_value = true with that number; a record whose
\* Value is a string that is no number gives has_value = false, and no error
\* is raised.
C12_FAOValueCoercion ==
    \A e \in Threads :
        \A i \in 1..Len(q[e].log) :
            \A k \in 1..Len(q[e].log[i].ev) :
                LET qr == q[e]
                    ev == qr.log[i].ev[k]
                    arr == ObjGet(YyjsonRead(ev.response.body), "data")
                    records == Yielding(qr, arr.v)
                IN  (/\ qr.provider = "fao"
                     /\ ev.response.status_code = 200 /\ ev.response.error = ""
                     /\ IsArr(arr)) =>
                      /\ qr.phase # "error"
                      /\ Len(ev.rows) = Len(records)
                      /\ \A r \in 1..Len(records) :
                            LET val == ObjGet(records[r], "Value")
                                row == ev.rows[r]
                            IN  /\ val = JAbsent => ~row.has_value
                                /\ (IsReal(val) \/ IsInt(val)
                                    \/ (IsStr(val) /\ IsNumeral(GetStr(val)))) =>
                                      row.has_value /\ IsTheNumber(row.value, val)
                                /\ (IsStr(val) /\ ~IsNumeral(GetStr(val))) =>
                                      ~row.has_value

\* the Element of the record contains the requested element, compared
\* without regard to case
ElementMatches(record, element) ==
    LET elem_val == ObjGet(record, "Element")
    IN  IsStr(elem_val) /\ Contains(Lower(GetStr(elem_val)), Lower(element))

\* C20: every row the FAO fetcher appends comes from a record whose Element
\* contains the requested element as a case-insensitive substring; whatever
\* fields a record carries, a record that does not match is not included:
\* the rows of a response are those of its matching records, in order.
C20_FAOElementFilter ==
    \A e \in Threads :
        \A i \in 1..Len(q[e].log) :
            \A k \in 1..Len(q[e].log[i].ev) :
                LET qr == q[e]
                    ev == qr.log[i].ev[k]
                    arr == ObjGet(YyjsonRead(ev.response.body), "data")
                    Matching(record) == ElementMatches(record, qr.args[2])
                    matching == SelectSeq(arr.v, Matching)
                IN  (/\ qr.provider = "fao"
                     /\ ev.response.status_code = 200 /\ ev.response.error = ""
                     /\ IsArr(arr)) =>
                      /\ Len(ev.rows) = Len(matching)
                      /\ \A r \in 1..Len(matching) :
                            \E junk_year \in MayHold(ev.rows, r, "year"),
                               junk_value \in MayHold(ev.rows, r, "value") :
                                ev.rows[r] = FAORow(matching[r], qr.args[1],
                                                    junk_year, junk_value)

-----------------------------------------------------------------------------
(* Claims about the pure functions *)

\* a bound of the year range is given
Given(year) == year > 0

\* C13: with has_year_filter = true, EncodeWorldBankYearFilter returns
\* "date=<start>:<end>" when both bounds are given, "date=<start>:2100" when
\* only the start is given and "date=1900:<end>" when only the end is given:
\* {2010, 2023} gives "date=2010:2023", {2010, -1} gives "date=2010:2100" and
\* {-1, 2023} gives "date=1900:2023".
C13_WorldBankYearFilter ==
    LET start == fn.filter.year_start
        end == fn.filter.year_end
    IN  (fn.f = "worldbank" /\ fn.filter.has_year_filter) =>
          /\ (Given(start) /\ Given(end)) =>
                fn.out = "date=" \o IntToString(start) \o ":" \o IntToString(end)
          /\ (Given(start) /\ ~Given(end)) =>
                fn.out = "date=" \o IntToString(start) \o ":2100"
          /\ (~Given(start) /\ Given(end)) =>
                fn.out = "date=1900:" \o IntToString(end)
          /\ (start = 2010 /\ end = 2023) => fn.out = "date=2010:2023"
          /\ (start = 2010 /\ end = -1) => fn.out = "date=2010:2100"
          /\ (start = -1 /\ end = 2023) => fn.out = "date=1900:2023"

C13_Witness ==
    /\ fn.f = "worldbank" /\ fn.filter.has_year_filter
    /\ fn.filter.year_start = 2010 /\ fn.filter.year_end = -1
    /\ fn.out = "date=2010:2100"

\* the text before the terms, the start term, the joiner and the end term of
\* the encoders for WHO, FAO, UNHCR and ILO
TermsOf(api) ==
    CASE api = "who" -> [head |-> "$filter=", start |-> "TimeDim ge ",
                         joiner |-> " and ", end |-> "TimeDim le "]
      [] api = "fao" -> [head |-> "", start |-> "year_start=",
                         joiner |-> "&", end |-> "year_end="]
      [] api = "unhcr" -> [head |-> "", start |-> "yearFrom=",
                           joiner |-> "&", end |-> "yearTo="]
      [] OTHER -> [head |-> "", start |-> "startPeriod=",
                   joiner |-> "&", end |-> "endPeriod="]

\* C14: with has_year_filter = true, the encoders for WHO, FAO, UNHCR and ILO
\* write the start term exactly when a start bound is given and the end term
\* exactly when an end bound is given, in this order, with the joiner (" and "
\* for WHO, "&" for the others) exactly when both are given; with
\* has_year_filter = false all five encoders return the empty string.
C14_YearFilterTerms ==
    LET start == fn.filter.year_start
        end == fn.filter.year_end
        terms == TermsOf(fn.f)
    IN  /\ (fn.f \in Encoders /\ ~fn.filter.has_year_filter) => fn.out = ""
        /\ (fn.f \in Encoders \ {"worldbank"} /\ fn.filter.has_year_filter) =>
              fn.out = terms.head
                       \o (IF Given(start) THEN terms.start \o IntToString(start) ELSE "")
                       \o (IF Given(start) /\ Given(end) THEN terms.joiner ELSE "")
                       \o (IF Given(end) THEN terms.end \o IntToString(end) ELSE "")
        /\ (fn.f = "who" /\ fn.filter.has_year_filter /\ start = 2010 /\ end = 2023) =>
              fn.out = "$filter=TimeDim ge 2010 and TimeDim le 2023"
        /\ (fn.f = "unhcr" /\ fn.filter.has_year_filter /\ start = -1 /\ end = 2023) =>
              fn.out = "yearTo=2023"

C14_Witness ==
    /\ fn.f = "who" /\ fn.filter.has_year_filter
    /\ fn.filter.year_start = -1 /\ fn.filter.year_end = 2023
    /\ fn.out = "$filter=TimeDim le 2023"

\* code is the two-letter or the three-letter code of the i-th supported country
IsCodeOf(code, i) ==
    code = SUPPORTED_COUNTRIES[i].iso2 \/ code = SUPPORTED_COUNTRIES[i].iso3

\* C15: NormalizeCountryCode maps the ISO2 and the ISO3 code of every
\* supported country to that country's ISO3 code and returns every other
\* string unchanged; applying it to its own result returns that result.
C15_NormalizeCountryCode ==
    (fn.f = "NormalizeCountryCode") =>
        /\ \A i \in 1..Len(SUPPORTED_COUNTRIES) :
              IsCodeOf(fn.prev, i) => fn.out = SUPPORTED_COUNTRIES[i].iso3
        /\ (\A i \in 1..Len(SUPPORTED_COUNTRIES) : ~IsCodeOf(fn.prev, i)) =>
              fn.out = fn.prev
        /\ fn.n = 2 => fn.out = fn.prev

C15_Witness ==
    /\ fn.f = "NormalizeCountryCode" /\ fn.n = 2
    /\ fn.code = "SS" /\ fn.prev = "SSD" /\ fn.out = "SSD"

\* C19: for each country the UNHCR fetcher resolves exactly two population
\* URLs, the one with the country as origin (coo) first and the one with the
\* country as asylum (coa) second; the asylum URL is resolved and its rows are
\* appended also when the origin one failed, was malformed or gave no rows.
C19_UNHCRBothRoles ==
    \A e \in Threads :
        \A i \in 1..Len(q[e].log) :
            LET qr == q[e]
                ev == qr.log[i].ev
                country == qr.countries[i]
            IN  (qr.provider = "unhcr") =>
                  /\ Len(ev) <= 2
                  /\ Len(ev) >= 1 => ev[1].url = UNHCRUrl("coo", country)
                  /\ Len(ev) >= 2 => ev[2].url = UNHCRUrl("coa", country)
                  /\ FetchDone(qr, i) =>
                        /\ Len(ev) = 2
                        /\ \E junk \in JunkRows :
                              ev[2].rows = Decoded(qr, country, ev[2].response, junk)
                  /\ qr.rows = LoggedRows(qr)

C19_Witness ==
    LET qr == q["e1"]
        ev == qr.log[1].ev
    IN  /\ qr.provider = "unhcr" /\ qr.phase = "ready"
        /\ Len(ev) = 2
        /\ ev[1].response.error # "" /\ ev[1].rows = <<>>
        /\ ev[1].url = UNHCRUrl("coo", qr.countries[1])
        /\ ev[2].url = UNHCRUrl("coa", qr.countries[1])
        /\ Len(ev[2].rows) = 2
        /\ qr.rows = ev[2].rows
        /\ Len(calls) = 2

-----------------------------------------------------------------------------
(* Claims about the fetchers and the cache *)

\* the fetch of a log entry ended with a body that was accepted: one from the
\* cache, or a 200 response with no error and a non-empty body
FetchSucceeded(entry) ==
    /\ entry.ev # <<>>
    /\ ProbeAccepted(entry.ev[Len(entry.ev)].response)

\* C18: an ILO fetch for an indicator and a country that is repeated within
\* the TTL of an earlier successful fetch for the same indicator and country
\* issues no transport call, whichever of the five key suffixes had succeeded:
\* every body it uses comes from the cache.
C18_ILORepeatFromCache ==
    \A e \in Threads :
        \A i \in 1..Len(q[e].log) :
            \A j \in (i + 1)..Len(q[e].log) :
                LET qr == q[e]
                IN  (/\ qr.provider = "ilo"
                     /\ qr.log[i].country = qr.log[j].country
                     /\ FetchSucceeded(qr.log[i])) =>
                      \A k \in 1..Len(qr.log[j].ev) : qr.log[j].ev[k].hit

\* a step that calls the transport is taken by an execution that has just been
\* returned no body by cache.Get for a URL of the fetch it is in
CallsOnlyAfterMiss ==
    (calls' # calls) =>
        LET c == calls'[Len(calls')]
            qr == q[c.e]
        IN  /\ qr.pc = "http"
            /\ OfFetch(qr.provider, qr.args, qr.countries[qr.ci], c.url)

\* C17: in the World Bank, WHO, FAO and UNHCR fetchers the transport is called
\* for a URL only after cache.Get of that URL returned nothing, and once a
\* status-200 body for a URL has been stored, no query execution, whether it
\* runs after or concurrently with the one that stored it, calls the transport
\* for that URL again until the entry expires or the cache is cleared.
C17_NoCallWhileStored ==
    /\ [](\A i \in 1..Len(calls) : ~calls[i].stored)
    /\ [][CallsOnlyAfterMiss]_vars

-----------------------------------------------------------------------------
(* Claims about the ILO decoding *)

\* the observations of a parsed SDMX-JSON body: the members of the
\* observations object of every series, in document order
ILOObservations(body) ==
    LET root_val == YyjsonRead(body)
        series == ObjGet(ArrGet(ILODataSets(root_val), 0), "series")
        Of(member) == LET obs == ObjGet(member.val, "observations")
                      IN  IF IsObj(obs) THEN obs.v ELSE <<>>
    IN  IF ~IsObj(series) THEN <<>>
        ELSE Flatten([s \in 1..Len(series.v) |-> Of(series.v[s])])

\* the observation carries a number: its array starts with a JSON number
ObservationHasNumber(om) ==
    IsArr(om.val) /\ ArrSize(om.val) > 0
    /\ (IsReal(ArrGet(om.val, 0)) \/ IsInt(ArrGet(om.val, 0)))

\* C21: ILO decoding.  An observation that is present under a series but
\* whose value is missing or is no number is returned as a row with
\* has_value = false, a NULL in the value column; it is neither dropped from
\* the result nor output as 0: every observation gives one row, in order.
C21_ILOMissingValueIsNull ==
    \A e \in Threads :
        \A i \in 1..Len(q[e].log) :
            \A k \in 1..Len(q[e].log[i].ev) :
                LET qr == q[e]
                    ev == qr.log[i].ev[k]
                    observations == ILOObservations(ev.response.body)
                IN  (qr.provider = "ilo" /\ ProbeAccepted(ev.response)) =>
                      /\ Len(ev.rows) = Len(observations)
                      /\ \A r \in 1..Len(observations) :
                            LET out == OutRow("ilo", ev.rows[r]).value
                            IN  out.null <=> ~ObservationHasNumber(observations[r])

\* the segments of a colon-separated key
RECURSIVE Segments(_)
Segments(key) ==
    LET colon == FindChar(key, ":", 1)
    IN  IF colon = 0 THEN <<key>>
        ELSE <<SubSeq(key, 1, colon - 1)>> \o Segments(SubSeq(key, colon + 1, Len(key)))

\* the segment is an index: a non-empty run of decimal digits
IsIndex(segment) ==
    segment # "" /\ \A i \in 1..Len(segment) : IsDigit(CharAt(segment, i))

\* the value a key selects in the dimension dim_id: the one at the index that
\* the key's segment at the position of the dimension gives; the empty
\* string when there is no such dimension or segment, when the segment is no
\* index, or when the index is not below the number of values
Selected(dims, dim_id, key) ==
    LET places == {p \in 1..Len(dims) : dims[p].id = dim_id}
        p == Min(places)
        segments == Segments(key)
    IN  IF places = {} \/ p > Len(segments) THEN ""
        ELSE IF ~IsIndex(segments[p]) THEN ""
        ELSE IF StoI(segments[p]).val >= Len(dims[p].values) THEN ""
        ELSE dims[p].values[StoI(segments[p]).val + 1]

\* C22: ILO key decoding never indexes outside a dimension's value list and
\* never fails: for every series or observation key (an empty key, segments
\* that are no numbers, more or fewer segments than declared dimensions,
\* indices not below the dimension's value count) decoding completes, and a
\* field whose index the key does not give validly is left empty (sex,
\* classif1) or set to 0 (year).
C22_ILOKeyDecoding ==
    \A e \in Threads :
        \A i \in 1..Len(q[e].log) :
            \A k \in 1..Len(q[e].log[i].ev) :
                LET qr == q[e]
                    ev == qr.log[i].ev[k]
                    root_val == YyjsonRead(ev.response.body)
                    dimensions == ObjGet(ILOStructure(root_val), "dimensions")
                    series_dims == DimInfos(ObjGet(dimensions, "series"))
                    obs_dims == DimInfos(ObjGet(dimensions, "observation"))
                    series == ObjGet(ArrGet(ILODataSets(root_val), 0), "series")
                    series_key == series.v[1].k
                    obs_key == ILOObservations(ev.response.body)[1].k
                    age == Selected(series_dims, "AGE", series_key)
                IN  (/\ qr.provider = "ilo" /\ ProbeAccepted(ev.response)
                     /\ IsObj(series) /\ Len(ILOObservations(ev.response.body)) = 1) =>
                      /\ qr.phase # "error"
                      /\ Len(ev.rows) = 1
                      /\ ev.rows[1].sex = Selected(series_dims, "SEX", series_key)
                      /\ ev.rows[1].classif1 =
                            (IF age # "" THEN age
                             ELSE Selected(series_dims, "CLASSIF1", series_key))
                      /\ ev.rows[1].year =
                            StoI(Selected(obs_dims, "TIME_PERIOD", obs_key)).val

-----------------------------------------------------------------------------
(* Claims about the rows *)

\* the member of a record that holds its year
YearOf(provider, record) ==
    CASE provider = "worldbank" -> ObjGet(record, "date")
      [] provider = "who" -> ObjGet(record, "TimeDim")
      [] provider = "fao" -> ObjGet(record, "Year")
      [] OTHER -> ObjGet(record, "year")

\* the year a record gives: the one decoded from its year member (a string
\* for World Bank, an integer for UNHCR, either for WHO and FAO), 0 when the
\* member is missing, of another type, or a string that cannot be parsed
DefinedYear(provider, val) ==
    IF IsInt(val) /\ provider # "worldbank" THEN val.v
    ELSE IF IsStr(val) /\ provider # "unhcr" /\ StoI(GetStr(val)).ok
    THEN StoI(GetStr(val)).val
    ELSE 0

\* the records of a response that give a row
SourceRecords(qr, body) ==
    LET field_name == GetUNHCRFieldName(qr.args[1])
        items == ObjGet(YyjsonRead(body), "items")
        Counted(record) == ParseUNHCRValue(ObjGet(record, field_name)) # Widen(0)
        arr == RecordsOf(qr.provider, body)
    IN  IF qr.provider = "unhcr"
        THEN (IF IsArr(items) THEN SelectSeq(items.v, Counted) ELSE <<>>)
        ELSE (IF IsArr(arr) THEN Yielding(qr, arr.v) ELSE <<>>)

\* C23: every row of the World Bank, FAO, UNHCR and WHO fetchers has a defined
\* year: the year decoded from the record, or 0 when the record's year member
\* is missing, has an unexpected type or cannot be parsed; no row carries an
\* unset year.
C23_YearIsDefined ==
    \A e \in Threads :
        \A i \in 1..Len(q[e].log) :
            \A k \in 1..Len(q[e].log[i].ev) :
                LET qr == q[e]
                    ev == qr.log[i].ev[k]
                    records == SourceRecords(qr, ev.response.body)
                IN  (/\ qr.provider \in {"worldbank", "fao", "unhcr", "who"}
                     /\ Len(ev.rows) = Len(records)) =>
                      \A r \in 1..Len(records) :
                          ev.rows[r].year =
                              DefinedYear(qr.provider, YearOf(qr.provider, records[r]))


\* C24: the timeout applied to every transport call of a query is the timeout
\* that ExtractHttpSettings took from the ambient configuration (the
\* configured http_timeout when one is set, 90 seconds otherwise), and the
\* settings are not changed between the extraction and the fetch calls.
C24_TimeoutIsTheExtracted ==
    /\ \A e \in Threads :
           q[e].phase \in {"fetch", "ready"} => q[e].timeout = q[e].extracted
    /\ \A i \in 1..Len(calls) : calls[i].timeout = q[calls[i].e].extracted


\* execution e is inside FetchWorldBankData for its c-th country, or (c = 1)
\* inside the page loop of SudanWBIndicators::Init
InWBFetch(e, c) ==
    q[e].provider \in {"worldbank", "wb_indicators"} /\ q[e].phase = "fetch" /\ q[e].ci = c

\* a turn of the page loop of one FetchWorldBankData call ends the call, or
\* goes on to a later page: page++ does not overflow
PageAdvances ==
    \A e \in Threads :
        \A c \in 1..Len(q[e].countries) :
            (InWBFetch(e, c) /\ InWBFetch(e, c)' /\ Len(q'[e].log[c].ev) > Len(q[e].log[c].ev))
                => q'[e].page > q[e].page

\* C25: FetchWorldBankData (and the same loop of SudanWBIndicators::Init)
\* terminates for every sequence of server responses:
\* each turn of the page loop leaves the loop or asks for a later page next,
\* and every call that was started returns, also when the 'pages' value
\* differs from one page response to the next.
C25_WBFetchTerminates ==
    /\ \A c \in 1..2 : InWBFetch("e1", c) ~> ~InWBFetch("e1", c)
    /\ [][PageAdvances]_vars

\* the cache lookups and transport calls of execution e, in order
EventsOf(e) == Flatten([i \in 1..Len(q[e].log) |-> q[e].log[i].ev])

\* a transport response with status 200 and an empty error
Status200NoError(response) == response.status_code = 200 /\ response.error = ""

\* the k-th event of e is a transport call for the URL that returned the body
\* with status 200 and no error
StoredBy(e, k, url, body) ==
    LET ev == EventsOf(e)[k]
    IN  /\ ev.url = url /\ ~ev.hit
        /\ Status200NoError(ev.response) /\ ev.response.body = body

\* C26: the ResponseCache holds only bodies of transport responses that had
\* status 200 and an empty error: every entry, and every body a lookup
\* returned, is the body of such a response for that URL; a failed or non-200
\* response is never stored, so the next fetch of the same URL calls the
\* transport again.
C26_CacheHoldsOnlyGoodBodies ==
    /\ \A url \in DOMAIN cache_ :
           \E e \in Threads :
               \E k \in 1..Len(EventsOf(e)) : StoredBy(e, k, url, cache_[url].body)
    /\ \A e \in Threads :
           \A k \in 1..Len(EventsOf(e)) :
               LET ev == EventsOf(e)
               IN  /\ ev[k].hit =>
                         \E j \in 1..(k - 1) :
                             StoredBy(e, j, ev[k].url, ev[k].response.body)
                   /\ \A j \in 1..(k - 1) :
                         (/\ ev[j].url = ev[k].url
                          /\ ~ev[j].hit /\ ~Status200NoError(ev[j].response)
                          /\ \A m \in (j + 1)..(k - 1) : ev[m].url # ev[k].url)
                             => ~ev[k].hit

\* a request failed or was answered with another status than 200, the cache
\* holds nothing for its URL, and the next fetch of the URL called the
\* transport again
C26_Witness ==
    \E e \in Threads :
        \E j, k \in 1..Len(EventsOf(e)) :
            LET ev == EventsOf(e)
            IN  /\ j < k /\ ev[j].url = ev[k].url
                /\ ~ev[j].hit /\ ~Status200NoError(ev[j].response)
                /\ ev[j].response.status_code \in {200, 404}
                /\ ~ev[k].hit
                /\ ev[k].url \notin DOMAIN cache_

-----------------------------------------------------------------------------
(* Claims about the executions that share the cache *)

\* the mutex is held by a thread inside Get, Put or Clear only: not by one
\* in a transport call, not by one that has returned from the operation
HeldInsideOperationOnly ==
    \A t \in Threads :
        /\ th[t].pc \in {"http", "idle", "lock"} => mutex_ # t
        /\ th[t].pc \in InCritical => mutex_ = t

\* C27: no execution holds the ResponseCache mutex while a transport call is in
\* progress, and every Get, Put and Clear releases the mutex before it returns;
\* so an execution in a slow transport call never blocks another execution's
\* cache operation, no deadlock is reachable (whenever an operation is under
\* way some thread inside or at the door of the cache can take a step), and
\* every cache operation that was started completes, under fair scheduling.
C27_MutexNotHeldAcrossCalls ==
    /\ []HeldInsideOperationOnly
    /\ [](\A t \in Threads :
             th[t].pc = "lock" =>
                 \/ mutex_ = "free"
                 \/ \E u \in Threads : mutex_ = u /\ th[u].pc \in InCritical)
    /\ \A t \in Threads : (th[t].pc = "lock") ~> (th[t].pc = "idle")

\* C27, with the completion the code does give: the mutex is held inside
\* an operation only, a waiting operation waits for a thread that can step,
\* every operation that has taken the mutex completes and returns with the
\* mutex released, and whenever operations wait for the mutex one of them
\* takes it.  Which of them is not said: an operation that waits completes
\* unless the mutex is granted to the other thread again and again.
C27_MutexReleasedAndProgress ==
    /\ []HeldInsideOperationOnly
    /\ [](\A t \in Threads :
             th[t].pc = "lock" =>
                 \/ mutex_ = "free"
                 \/ \E u \in Threads : mutex_ = u /\ th[u].pc \in InCritical)
    /\ \A t \in Threads :
          (th[t].pc \in InCritical) ~> (th[t].pc = "idle" /\ mutex_ # t)
    /\ (\E t \in Threads : th[t].pc = "lock")
           ~> (\E t \in Threads : th[t].pc \in InCritical)
    /\ \A t \in Threads :
          \/ (th[t].pc = "lock") ~> (th[t].pc = "idle")
          \/ []<><<\E u \in Threads \ {t} : Lock(u)>>_vars

\* one execution is in a transport call while the other is inside a cache
\* operation, holding the mutex
C27_Witness ==
    /\ th["e1"].pc = "http"
    /\ th["e2"].pc \in InCritical /\ mutex_ = "e2"

-----------------------------------------------------------------------------
(* Claims about the fetch state of a query *)

\* an Execute call leaves the buffered rows as they are
ExecuteKeepsRows ==
    \A e \in Threads :
        (q[e].phase = "ready" /\ q'[e] # q[e]) => q'[e].rows = q[e].rows

\* C28: in every reachable fetch state of a query 0 <= current_row <= the
\* number of buffered rows, so rows.size() - current_row does not underflow
\* and the rows a call of Execute reads end at the end of the buffer; Execute
\* never adds, removes or changes buffered rows.
C28_CursorWithinRows ==
    /\ [](\A e \in Threads :
             LET qr == q[e]
             IN  /\ 0 <= qr.current_row /\ qr.current_row <= Len(qr.rows)
                 /\ OutputSize(qr) >= 0
                 /\ qr.current_row + OutputSize(qr) <= Len(qr.rows))
    /\ [][ExecuteKeepsRows]_vars

\* all rows of a buffer whose last chunk is not full have been returned, and
\* Execute was called once more
C28_Witness ==
    LET qr == q["e1"]
    IN  /\ qr.phase = "ready"
        /\ Len(qr.rows) = STANDARD_VECTOR_SIZE + 1
        /\ qr.current_row = Len(qr.rows)
        /\ qr.before = qr.current_row
        /\ qr.idle = 1


\* the records of the responses of one FetchUNHCRData call that give a row
UNHCRSourceRecords(qr, entry) ==
    UNION {{SourceRecords(qr, entry.ev[k].response.body)[r] :
               r \in 1..Len(SourceRecords(qr, entry.ev[k].response.body))} :
           k \in 1..Len(entry.ev)}

\* C29: UNHCR: within the fetch for one country a source record is appended at
\* most once: a record present in both the coo response and the coa response
\* of the country does not appear twice, so the fetch appends no more rows
\* than its responses hold distinct records.
C29_UNHCRRecordOnce ==
    \A e \in Threads :
        \A i \in 1..Len(q[e].log) :
            LET qr == q[e]
                entry == qr.log[i]
                appended == Flatten([k \in 1..Len(entry.ev) |-> entry.ev[k].rows])
            IN  qr.provider = "unhcr" =>
                    Len(appended) <= Cardinality(UNHCRSourceRecords(qr, entry))


\* 'date=' followed by two years separated by ':'
IsDateRange(out) ==
    /\ SubSeq(out, 1, 5) = "date="
    /\ \E i \in 7..(Len(out) - 1) :
           /\ SubSeq(out, i, i) = ":"
           /\ IsNumeral(SubSeq(out, 6, i - 1))
           /\ IsNumeral(SubSeq(out, i + 1, Len(out)))

\* '$filter=' followed by at least one comparison
IsODataFilter(out) ==
    /\ SubSeq(out, 1, 8) = "$filter="
    /\ Len(out) > 19
    /\ SubSeq(out, 9, 19) \in {"TimeDim ge ", "TimeDim le "}
    /\ \E i \in 20..Len(out) : IsNumeral(SubSeq(out, 20, i))


=============================================================================
